---- MODULE Spec2Model ----
(***************************************************************************)
(* Request pipeline, per-user task cache and authentication of the         *)
(* cloudflare-task-manager Worker.                                         *)
(*                                                                         *)
(* One fetch invocation is a process: it owns a slot, walks through the    *)
(* pipeline of index.ts and suspends at every await that touches D1 or KV. *)
(* Code that runs between two such awaits is local to the invocation and   *)
(* is folded into the action of the await that follows or precedes it.     *)
(*                                                                         *)
(* Conventions: a JavaScript null / undefined of a string column is the    *)
(* string "NULL"; an optional object or timestamp is a sequence of length  *)
(* 0 or 1.                                                                 *)
(***************************************************************************)
EXTENDS Integers, Sequences, FiniteSets, TLC

VARIABLES
    users,              \* D1 table users:      id -> row
    tasks,              \* D1 table tasks:      id -> row
    tags,               \* D1 table tags:       id -> row
    task_tags,          \* D1 table task_tags:  set of <<task_id, tag_id>>
    sqlite_sequence,    \* AUTOINCREMENT counters per table
    last_insert_rowid,  \* rowid of the latest INSERT on the D1 connection
    kv,                 \* KV namespace CACHE:  key -> [value, expiration]
    now,                \* wall clock in seconds
    pc,                 \* per slot: where the fetch invocation is suspended
    request,            \* per slot: the inbound Request
    local,              \* per slot: local variables of the handlers
    outcome,            \* per slot: what fetch settled with
    waitUntil,          \* promises registered with ExecutionContext.waitUntil
    issued,             \* bearer tokens the API has handed to clients
    served              \* number of fetch invocations started so far

vars == <<users, tasks, tags, task_tags, sqlite_sequence, last_insert_rowid,
          kv, now, pc, request, local, outcome, waitUntil, issued, served>>

db == <<users, tasks, tags, task_tags, sqlite_sequence, last_insert_rowid>>

(***************************************************************************)
(* Bounds of the model.                                                    *)
(***************************************************************************)
MaxSlots == 2
RateRequests == 62
PipeRequests == 2
GuardRequests == 1
AuthRequests == 2
TaskRequests == 2
StaleRequests == 3
UpdateRequests == 3
DeleteRequests == 3
TagRequests == 2
RegisterRequests == 2
WafRequests == 2
ListRequests == 2
EnrichRequests == 2
ListTasks == 3
PreflightRequests == 4
PreflightMaxNow == 80

Slots == 1..MaxSlots

NULL == "NULL"

(***************************************************************************)
(* utils/response.ts                                                       *)
(***************************************************************************)
CORS_HEADERS ==
    {"Access-Control-Allow-Origin", "Access-Control-Allow-Methods",
     "Access-Control-Allow-Headers", "Access-Control-Max-Age"}

NoData == [kind |-> "none", task |-> <<>>, tasks |-> <<>>, user |-> <<>>,
           token |-> <<>>, meta |-> <<>>, tag |-> <<>>, tags |-> {}, text |-> ""]

buildResponse(success, data, code, message, status, extra) ==
    [status  |-> status,
     success |-> success,
     data    |-> data,
     code    |-> code,
     message |-> message,
     headers |-> {"Content-Type"} \cup CORS_HEADERS \cup DOMAIN extra,
     retryAfter |-> IF "Retry-After" \in DOMAIN extra THEN extra["Retry-After"] ELSE 0,
     hasBody |-> TRUE]

NoExtra == [h \in {} |-> 0]

ok(data) == buildResponse(TRUE, data, "", "", 200, NoExtra)

created(data) == buildResponse(TRUE, data, "", "", 201, NoExtra)

badRequest(message, code) == buildResponse(FALSE, NoData, code, message, 400, NoExtra)

unauthorized(message) == buildResponse(FALSE, NoData, "UNAUTHORIZED", message, 401, NoExtra)

forbidden(message) == buildResponse(FALSE, NoData, "FORBIDDEN", message, 403, NoExtra)

notFound(message) == buildResponse(FALSE, NoData, "NOT_FOUND", message, 404, NoExtra)

conflict(message) == buildResponse(FALSE, NoData, "CONFLICT", message, 409, NoExtra)

tooManyRequests(retryAfter) ==
    buildResponse(FALSE, NoData, "RATE_LIMITED", "Too many requests. Please slow down.",
                  429, [h \in {"Retry-After"} |-> retryAfter])

internalError(message) == buildResponse(FALSE, NoData, "INTERNAL_ERROR", message, 500, NoExtra)

preflight ==
    [status |-> 204, success |-> TRUE, data |-> NoData, code |-> "", message |-> "",
     headers |-> CORS_HEADERS, retryAfter |-> 0, hasBody |-> FALSE]

\* new Response(JSON.stringify(...), {status, headers: {"Content-Type": ...}})
\* as written inline by the router and the threat filter: no CORS headers.
rawJsonResponse(success, data, code, message, status) ==
    [status |-> status, success |-> success, data |-> data, code |-> code,
     message |-> message, headers |-> {"Content-Type"}, retryAfter |-> 0,
     hasBody |-> TRUE]

(***************************************************************************)
(* middleware/security.ts                                                  *)
(***************************************************************************)
SECURITY_HEADERS ==
    {"X-Content-Type-Options", "X-Frame-Options", "X-XSS-Protection",
     "Strict-Transport-Security", "Content-Security-Policy",
     "Referrer-Policy", "Permissions-Policy"}

addSecurityHeaders(response) ==
    [response EXCEPT !.headers = (@ \cup SECURITY_HEADERS) \ {"Server"}]

RATE_LIMIT_MAX == 60
RATE_LIMIT_WINDOW == 60


\* A URL as the client wrote it: the raw path segments and the raw query
\* parameters.  new URL() removes dot segments from the path and
\* percent-encodes the query; searchParams.get() decodes it again.
DotSegments == {".", "%2e", "%2E"}
DoubleDotSegments == {"..", "%2e%2e", "%2E%2E", ".%2e", "%2e."}

RECURSIVE RemoveDotSegments(_, _)
RemoveDotSegments(raw, out) ==
    IF raw = <<>> THEN out
    ELSE LET seg == Head(raw) IN
         IF seg \in DotSegments THEN RemoveDotSegments(Tail(raw), out)
         ELSE IF seg \in DoubleDotSegments
              THEN RemoveDotSegments(Tail(raw),
                       IF out = <<>> THEN out ELSE SubSeq(out, 1, Len(out) - 1))
              ELSE RemoveDotSegments(Tail(raw), Append(out, seg))

pathname(req) == RemoveDotSegments(req.path, <<>>)

\* Query percent-encoding of the URL parser: < > " ' and space are escaped.
PercentEncode(text) ==
    CASE text = "<script>alert(1)</script>" -> "%3Cscript%3Ealert(1)%3C/script%3E"
      [] text = "' or '1'='1"               -> "%27%20or%20%271%27=%271"
      [] text = "1 union select 1"          -> "1%20union%20select%201"
      [] OTHER                              -> text

search(req) == {PercentEncode(req.query[k]) : k \in DOMAIN req.query}

searchParams(req, name) ==
    IF name \in DOMAIN req.query THEN req.query[name] ELSE NULL

\* url.pathname + url.search, as the pieces the patterns are tested on
toCheck(req) == {pathname(req)[i] : i \in 1..Len(pathname(req))} \cup search(req)

SQL_INJECTION_PATTERN(text) ==
    text \in {"1 union select 1", "1+union+select+1", "' or '1'='1", "xp_cmdshell"}

XSS_PATTERN(text) ==
    text \in {"<script>alert(1)</script>", "javascript:alert(1)", "onerror=alert(1)"}

PATH_TRAVERSAL(text) ==
    text \in {"../../etc/passwd", "..%2f..%2fetc%2fpasswd", "%2e%2e%2fetc%2fpasswd"}

wafForbidden == rawJsonResponse(FALSE, NoData, "FORBIDDEN", "Forbidden", 403)

detectMaliciousInput(req) ==
    IF \E t \in toCheck(req) : SQL_INJECTION_PATTERN(t) THEN <<wafForbidden>>
    ELSE IF \E t \in toCheck(req) : XSS_PATTERN(t) THEN <<wafForbidden>>
    ELSE IF \E t \in toCheck(req) : PATH_TRAVERSAL(t) THEN <<wafForbidden>>
    ELSE <<>>

\* a pipeline without the preflight stage
handleCors_absent(req) == <<>>

handleCors(req) == IF req.method = "OPTIONS" THEN <<preflight>> ELSE <<>>

(***************************************************************************)
(* middleware/error-handler.ts                                             *)
(***************************************************************************)
\* Values that can be thrown: an AppError, a plain object with status and
\* message, an Error, or anything else.
AppError(statusCode, code, message) ==
    [kind |-> "AppError", status |-> statusCode, code |-> code, message |-> message]

AppError_unauthorized(message) == AppError(401, "UNAUTHORIZED", message)
AppError_notFound(message) == AppError(404, "NOT_FOUND", message)
AppError_conflict(message) == AppError(409, "CONFLICT", message)

Error(message) == [kind |-> "Error", status |-> 0, code |-> "", message |-> message]

NoThrown == [kind |-> "none", status |-> 0, code |-> "", message |-> ""]
NoResponse == [status |-> 0, success |-> FALSE, data |-> NoData, code |-> "",
               message |-> "", headers |-> {}, retryAfter |-> 0, hasBody |-> FALSE]

\* How an async function settles; at is the number of requests the Worker
\* had received when fetch settled
Return(response) == [tag |-> "return", response |-> response, thrown |-> NoThrown, at |-> 0]
Throw(thrown) == [tag |-> "throw", response |-> NoResponse, thrown |-> thrown, at |-> 0]
Pending == [tag |-> "pending", response |-> NoResponse, thrown |-> NoThrown, at |-> 0]

statusToResponse(status, message, code) ==
    CASE status = 400 -> badRequest(message, code)
      [] status = 401 -> unauthorized(message)
      [] status = 403 -> forbidden(message)
      [] status = 404 -> notFound(message)
      [] status = 409 -> conflict(message)
      [] OTHER        -> internalError(message)

\* variant whose catch handles known errors only and rethrows the rest
withErrorHandling_rethrow(settled) ==
    IF settled.tag = "return" THEN settled
    ELSE LET error == settled.thrown IN
         IF error.kind = "AppError"
         THEN Return(statusToResponse(error.status, error.message, error.code))
         ELSE settled

withErrorHandling(settled) ==
    IF settled.tag = "return" THEN settled
    ELSE LET error == settled.thrown IN
         IF error.kind = "AppError"
         THEN Return(statusToResponse(error.status, error.message, error.code))
         ELSE IF error.kind = "object"
              THEN Return(statusToResponse(error.status, error.message, "BAD_REQUEST"))
              ELSE Return(internalError("Internal server error"))

(***************************************************************************)
(* middleware/logger.ts                                                    *)
(***************************************************************************)
logWithTiming(settled) ==
    IF settled.tag = "return"
    THEN Return([settled.response EXCEPT !.headers = @ \cup {"X-Request-ID"}])
    ELSE settled

(***************************************************************************)
(* index.ts: the Worker entry point                                        *)
(***************************************************************************)
\* what fetch settles with when a stage before the router answers or throws
fetchFromStage(settled) ==
    withErrorHandling(IF settled.tag = "return"
                      THEN Return(addSecurityHeaders(settled.response))
                      ELSE settled)

\* what fetch settles with when the logger-wrapped router answers or throws
fetchFromRouter(settled) ==
    LET logged == logWithTiming(settled) IN
    withErrorHandling(IF logged.tag = "return"
                      THEN Return(addSecurityHeaders(logged.response))
                      ELSE logged)


(***************************************************************************)
(* KV namespace: get / put with expirationTtl / delete                     *)
(***************************************************************************)
kvGet(key) == IF key \in DOMAIN kv THEN <<kv[key].value>> ELSE <<>>

kvPut(store, key, value, expirationTtl) ==
    (key :> [value |-> value, expiration |-> now + expirationTtl]) @@ store

kvDelete(store, key) == [k \in DOMAIN store \ {key} |-> store[k]]

\* entries whose expiration has been reached are gone
kvExpire(store, time) ==
    [k \in {j \in DOMAIN store : store[j].expiration > time} |-> store[k]]

(***************************************************************************)
(* Requests and the local state of one fetch invocation                    *)
(***************************************************************************)
\* A request body: whether it parses as JSON, whether the parsed value is an
\* object, and the object's properties as tagged JavaScript values.
NoBody == [json |-> FALSE, object |-> FALSE, value |-> [f \in {} |-> NULL]]

JsonBody(value) == [json |-> TRUE, object |-> TRUE, value |-> value]

JsonScalar == [json |-> TRUE, object |-> FALSE, value |-> [f \in {} |-> NULL]]

Str(v) == [t |-> "string", v |-> v]
Num(v) == [t |-> "number", n |-> v]
Arr(v) == [t |-> "array", a |-> v]
Null == [t |-> "null"]
Undefined == [t |-> "undefined"]

prop(b, k) == IF k \in DOMAIN b THEN b[k] ELSE Undefined

NoQuery == [k \in {} |-> NULL]

Req(method, path, query, cfip, authorization, body) ==
    [method |-> method, path |-> path, query |-> query, cfip |-> cfip,
     xff |-> <<>>, authorization |-> authorization, body |-> body]

NoRequest == Req("GET", <<>>, NoQuery, <<>>, <<>>, NoBody)

InitLocal ==
    [seq      |-> 0,        \* ordinal of the request among those received
     count    |-> 0,        \* checkRateLimit: the counter read
     auth     |-> <<>>,     \* router: the AuthContext
     id       |-> 0,        \* router: the parsed :id
     input    |-> <<>>,     \* controller: validation.value
     ctx      |-> "undefined", \* controller: the ExecutionContext argument
     ret      |-> "",       \* repository: where findById returns to
     row      |-> <<>>,     \* a row read from D1
     rowid    |-> 0,        \* repository: id of the row just inserted
     rows     |-> <<>>,     \* findAll: the page of rows
     total    |-> 0,        \* findAll: COUNT(*)
     existing |-> <<>>,     \* update: the task as read before the UPDATE
     result   |-> <<>>,     \* service: the value about to be returned
     hash     |-> <<>>,     \* auth service: hashPassword result
     verified |-> <<>>,     \* auth service: the hash verifyPassword ran against
     pending  |-> {}]       \* invalidateUserCache: deletes not yet done

\* a limiter that trusts the client's X-Forwarded-For header
clientIp_forwarded(req) ==
    IF req.xff # <<>> THEN req.xff[1]
    ELSE IF req.cfip = <<>> THEN "unknown" ELSE req.cfip[1]

\* request.headers.get("CF-Connecting-IP") ?? "unknown"
clientIp(req) == IF req.cfip = <<>> THEN "unknown" ELSE req.cfip[1]

rateLimitKey(req) == <<"rl", clientIp(req)>>

\* off-by-one variant of the threshold test
rateLimited_offByOne(count) == count > RATE_LIMIT_MAX

rateLimited(count) == count >= RATE_LIMIT_MAX

settle(s, settled) ==
    /\ outcome' = [outcome EXCEPT ![s] = [settled EXCEPT !.at = served]]
    /\ pc' = [pc EXCEPT ![s] = "done"]

goto(s, label) ==
    /\ pc' = [pc EXCEPT ![s] = label]
    /\ UNCHANGED outcome

(***************************************************************************)
(* fetch: threat filter and CORS preflight, up to the first await          *)
(***************************************************************************)
\* An invocation takes a slot whose previous invocation has settled, or the
\* lowest slot that has never been used (unused slots are interchangeable).
\* fetch with the preflight check ahead of the threat filter
fetch_corsFirst(s, req, limit) ==
    /\ pc[s] \in {"idle", "done"}
    /\ pc[s] = "idle" => \A t \in 1..(s - 1) : pc[t] # "idle"
    /\ served < limit
    /\ served' = served + 1
    /\ request' = [request EXCEPT ![s] = req]
    /\ local' = [local EXCEPT ![s] = [InitLocal EXCEPT !.seq = served + 1]]
    /\ LET wafBlock     == detectMaliciousInput(req)
           corsResponse == handleCors(req)
       IN  IF corsResponse # <<>>
           THEN settle(s, fetchFromStage(Return(corsResponse[1])))
           ELSE IF wafBlock # <<>>
                THEN settle(s, fetchFromStage(Return(wafBlock[1])))
                ELSE /\ pc' = [pc EXCEPT ![s] = "checkRateLimit"]
                     /\ outcome' = [outcome EXCEPT ![s] = Pending]
    /\ UNCHANGED <<db, kv, now, waitUntil, issued>>

fetch(s, req, limit) ==
    /\ pc[s] \in {"idle", "done"}
    /\ pc[s] = "idle" => \A t \in 1..(s - 1) : pc[t] # "idle"
    /\ served < limit
    /\ served' = served + 1
    /\ request' = [request EXCEPT ![s] = req]
    /\ local' = [local EXCEPT ![s] = [InitLocal EXCEPT !.seq = served + 1]]
    /\ LET wafBlock     == detectMaliciousInput(req)
           corsResponse == handleCors(req)
       IN  IF wafBlock # <<>>
           THEN settle(s, fetchFromStage(Return(wafBlock[1])))
           ELSE IF corsResponse # <<>>
                THEN settle(s, fetchFromStage(Return(corsResponse[1])))
                ELSE /\ pc' = [pc EXCEPT ![s] = "checkRateLimit"]
                     /\ outcome' = [outcome EXCEPT ![s] = Pending]
    /\ UNCHANGED <<db, kv, now, waitUntil, issued>>

(***************************************************************************)
(* checkRateLimit: cache.get, then cache.put                               *)
(***************************************************************************)
\* a limiter whose rejection rewrites the counter with a fresh TTL
checkRateLimit_get_touch(s) ==
    /\ pc[s] = "checkRateLimit"
    /\ LET current == kvGet(rateLimitKey(request[s]))
           count   == IF current # <<>> THEN current[1] ELSE 0
       IN  IF rateLimited(count)
           THEN /\ settle(s, fetchFromStage(Return(tooManyRequests(RATE_LIMIT_WINDOW))))
                /\ kv' = kvPut(kv, rateLimitKey(request[s]), count, RATE_LIMIT_WINDOW)
                /\ UNCHANGED local
           ELSE /\ local' = [local EXCEPT ![s].count = count]
                /\ goto(s, "checkRateLimit_put")
                /\ UNCHANGED kv
    /\ UNCHANGED <<db, now, request, waitUntil, issued, served>>

checkRateLimit_get(s) ==
    /\ pc[s] = "checkRateLimit"
    /\ LET current == kvGet(rateLimitKey(request[s]))
           count   == IF current # <<>> THEN current[1] ELSE 0
       IN  IF rateLimited(count)
           THEN /\ settle(s, fetchFromStage(Return(tooManyRequests(RATE_LIMIT_WINDOW))))
                /\ UNCHANGED local
           ELSE /\ local' = [local EXCEPT ![s].count = count]
                /\ goto(s, "checkRateLimit_put")
    /\ UNCHANGED <<db, kv, now, request, waitUntil, issued, served>>

\* a limiter that adds two for each admitted request
checkRateLimit_put_double(s) ==
    /\ pc[s] = "checkRateLimit_put"
    /\ kv' = kvPut(kv, rateLimitKey(request[s]), local[s].count + 2, RATE_LIMIT_WINDOW)
    /\ goto(s, "router")
    /\ UNCHANGED <<db, now, request, local, waitUntil, issued, served>>

checkRateLimit_put(s) ==
    /\ pc[s] = "checkRateLimit_put"
    /\ kv' = kvPut(kv, rateLimitKey(request[s]), local[s].count + 1, RATE_LIMIT_WINDOW)
    /\ goto(s, "router")
    /\ UNCHANGED <<db, now, request, local, waitUntil, issued, served>>

(***************************************************************************)
(* Passage of time                                                         *)
(***************************************************************************)
TickSeconds == 20

Tick(limit) ==
    /\ now + TickSeconds <= limit
    /\ now' = now + TickSeconds
    /\ kv' = kvExpire(kv, now + TickSeconds)
    /\ UNCHANGED <<db, pc, request, local, outcome, waitUntil, issued, served>>


(***************************************************************************)
(* String primitives used by the validators, on the strings of the model   *)
(***************************************************************************)
trim(str) ==
    CASE str = " Alice " -> "Alice"
      [] str = "   "     -> ""
      [] str = " work "  -> "work"
      [] str = " home "  -> "home"
      [] OTHER           -> str

toLowerCase(str) ==
    CASE str = "A@X.com" -> "a@x.com"
      [] str = "Work"    -> "work"
      [] str = "Home"    -> "home"
      [] str = "B@X.com" -> "b@x.com"
      [] OTHER           -> str

length(str) ==
    CASE str = ""        -> 0
      [] str = "   "     -> 3
      [] str = "short"   -> 5
      [] str = "name101" -> 101
      [] str = "pass129" -> 129
      [] str = "title256" -> 256
      [] str = "desc5001" -> 5001
      [] str = "tag51"   -> 51
      [] str = "summary200" -> 200
      [] str = "summary201" -> 201
      [] OTHER           -> 11

(***************************************************************************)
(* utils/jwt.ts                                                            *)
(***************************************************************************)
JWT_SECRET == "JWT_SECRET"
TokenLifetime == 3600

JwtPayload(userId, email, name) ==
    [userId |-> userId, email |-> email, name |-> name,
     typeof |-> [userId |-> "number", email |-> "string", name |-> "string"]]

generateToken(payload) ==
    [format |-> "jws", key |-> JWT_SECRET, exp |-> now + TokenLifetime, payload |-> payload]

\* jwtVerify of jose: the payload, or the message of the error it throws
verifyToken(token) ==
    IF token.format # "jws"
    THEN [ok |-> FALSE, message |-> "Invalid Compact JWS"]
    ELSE IF token.key # JWT_SECRET
         THEN [ok |-> FALSE, message |-> "signature verification failed"]
         ELSE IF token.exp <= now
              THEN [ok |-> FALSE, message |-> "\"exp\" claim timestamp check failed"]
              ELSE [ok |-> TRUE, message |-> ""]

\* PBKDF2-SHA256 is an opaque function of password and salt, in hex
PBKDF2(password, salt) == "pbkdf2(" \o password \o "," \o salt \o ")"

\* the values crypto.getRandomValues can give, in hex
Salts == {"5a17", "5a18"}

\* `${saltHex}:${hashHex}` with the salt drawn by the caller
hashPassword(password, salt) == salt \o ":" \o PBKDF2(password, salt)

\* the salts a stored string can start with
StoredSalts == Salts \cup {"0000000000000000000000000000000000000000"}

\* split the stored string at the colon, derive the bits again with that
\* salt and compare
verifyPassword(password, stored) ==
    \E salt \in StoredSalts : stored = salt \o ":" \o PBKDF2(password, salt)

(***************************************************************************)
(* middleware/auth.middleware.ts                                           *)
(***************************************************************************)
includesExpired(message) == message \in {"jwt expired", "token expired"}

AuthFailed(response) == [response |-> <<response>>, auth |-> <<>>]

\* variant that skips the check of the payload's field types
requireAuth_unchecked(req) ==
    LET authHeader == req.authorization IN
    IF authHeader = <<>>
    THEN AuthFailed(unauthorized("Authorization header is required"))
    ELSE IF authHeader[1].scheme # "Bearer"
    THEN AuthFailed(unauthorized("Authorization header must use Bearer scheme"))
    ELSE IF authHeader[1].token = <<>>
    THEN AuthFailed(unauthorized("Bearer token is empty"))
    ELSE LET token    == authHeader[1].token[1]
             verified == verifyToken(token)
             payload  == token.payload
         IN  IF ~verified.ok
             THEN AuthFailed(unauthorized(IF includesExpired(verified.message)
                                          THEN "Token has expired" ELSE "Invalid token"))
             ELSE [response |-> <<>>,
                   auth |-> <<[userId |-> payload.userId, email |-> payload.email,
                               name |-> payload.name]>>]

requireAuth(req) ==
    LET authHeader == req.authorization IN
    IF authHeader = <<>>
    THEN AuthFailed(unauthorized("Authorization header is required"))
    ELSE IF authHeader[1].scheme # "Bearer"
    THEN AuthFailed(unauthorized("Authorization header must use Bearer scheme"))
    ELSE IF authHeader[1].token = <<>>
    THEN AuthFailed(unauthorized("Bearer token is empty"))
    ELSE LET token    == authHeader[1].token[1]
             verified == verifyToken(token)
             payload  == token.payload
         IN  IF ~verified.ok
             THEN AuthFailed(unauthorized(IF includesExpired(verified.message)
                                          THEN "Token has expired" ELSE "Invalid token"))
             ELSE IF \/ payload.typeof.userId # "number"
                     \/ payload.typeof.email # "string"
                     \/ payload.typeof.name # "string"
                  THEN AuthFailed(unauthorized("Token payload is malformed"))
                  ELSE [response |-> <<>>,
                        auth |-> <<[userId |-> payload.userId, email |-> payload.email,
                                    name |-> payload.name]>>]

(***************************************************************************)
(* utils/validation.ts: register and login                                 *)
(***************************************************************************)
Invalid(error) == [ok |-> FALSE, error |-> error, value |-> <<>>]
Valid(value) == [ok |-> TRUE, error |-> "", value |-> <<value>>]

isNonEmptyString(v) == v.t = "string" /\ length(trim(v.v)) > 0

isValidEmail(email) == trim(email) \notin {"not-an-email", "a@b", ""}

validateRegisterInput(body) ==
    LET b == body.value IN
    IF ~body.object THEN Invalid("Request body must be a JSON object")
    ELSE IF ~isNonEmptyString(prop(b, "email")) THEN Invalid("email is required")
    ELSE IF ~isValidEmail(b.email.v) THEN Invalid("email format is invalid")
    ELSE IF ~isNonEmptyString(prop(b, "name")) THEN Invalid("name is required")
    ELSE IF length(trim(b.name.v)) > 100 THEN Invalid("name must be 100 characters or less")
    ELSE IF ~isNonEmptyString(prop(b, "password")) THEN Invalid("password is required")
    ELSE IF length(b.password.v) < 8 THEN Invalid("password must be at least 8 characters")
    ELSE IF length(b.password.v) > 128 THEN Invalid("password must be 128 characters or less")
    ELSE Valid([email |-> toLowerCase(trim(b.email.v)), name |-> trim(b.name.v),
                password |-> b.password.v])

validateLoginInput(body) ==
    LET b == body.value IN
    IF ~body.object THEN Invalid("Request body must be a JSON object")
    ELSE IF ~isNonEmptyString(prop(b, "email")) THEN Invalid("email is required")
    ELSE IF ~isNonEmptyString(prop(b, "password")) THEN Invalid("password is required")
    ELSE Valid([email |-> toLowerCase(trim(b.email.v)), password |-> b.password.v])


(***************************************************************************)
(* types/task.types.ts and utils/validation.ts: tasks and tags             *)
(***************************************************************************)
TASK_STATUSES == {"todo", "in_progress", "done", "cancelled"}
TASK_PRIORITIES == {"low", "medium", "high", "critical"}
AI_SENTIMENTS == {"positive", "neutral", "negative"}

isValidDate(dateStr) == dateStr \notin {"tomorrow", "2026-13-45", ""}

isValidHexColor(color) == color \in {"#6366f1", "#ef4444", "#22C55E"}

inEnum(v, enum) == v.t = "string" /\ v.v \in enum

isNumberArray(v) == v.t = "array" /\ \A i \in 1..Len(v.a) : v.a[i].t = "number"

numbersOf(v) == [i \in 1..Len(v.a) |-> v.a[i].n]

\* an optional validated property: undefined is <<>>
Opt(v) == IF v.t = "string" THEN <<v.v>> ELSE <<>>

\* a nullable validated property of an update: null, a string, or undefined
Nullable(v) == IF v.t = "null" THEN Null ELSE IF v.t = "string" THEN v ELSE Undefined

AllowedUpdateKeys == {"title", "description", "status", "priority", "due_date", "tag_ids"}

commonTaskError(b) ==
    LET description == prop(b, "description")
        status      == prop(b, "status")
        priority    == prop(b, "priority")
        due_date    == prop(b, "due_date")
        tag_ids     == prop(b, "tag_ids")
    IN  IF description.t \notin {"undefined", "null"} /\ description.t # "string"
        THEN "description must be a string"
        ELSE IF description.t = "string" /\ length(description.v) > 5000
        THEN "description must be 5000 characters or less"
        ELSE IF status.t # "undefined" /\ ~inEnum(status, TASK_STATUSES)
        THEN "status must be one of: todo, in_progress, done, cancelled"
        ELSE IF priority.t # "undefined" /\ ~inEnum(priority, TASK_PRIORITIES)
        THEN "priority must be one of: low, medium, high, critical"
        ELSE IF due_date.t \notin {"undefined", "null"}
                /\ (due_date.t # "string" \/ ~isValidDate(due_date.v))
        THEN "due_date must be a valid ISO-8601 date (YYYY-MM-DD)"
        ELSE IF tag_ids.t # "undefined" /\ ~isNumberArray(tag_ids)
        THEN "tag_ids must be an array of numbers"
        ELSE ""

validateCreateTaskInput(body) ==
    LET b == body.value IN
    IF ~body.object THEN Invalid("Request body must be a JSON object")
    ELSE IF ~isNonEmptyString(prop(b, "title")) THEN Invalid("title is required")
    ELSE IF length(trim(b.title.v)) > 255 THEN Invalid("title must be 255 characters or less")
    ELSE IF commonTaskError(b) # "" THEN Invalid(commonTaskError(b))
    ELSE Valid([title       |-> trim(b.title.v),
                description |-> IF prop(b, "description").t = "string"
                                THEN <<trim(b.description.v)>> ELSE <<>>,
                status      |-> Opt(prop(b, "status")),
                priority    |-> Opt(prop(b, "priority")),
                due_date    |-> Opt(prop(b, "due_date")),
                tag_ids     |-> IF prop(b, "tag_ids").t = "array"
                                THEN <<numbersOf(b.tag_ids)>> ELSE <<>>])

\* validateUpdateTaskInput without the test for at least one known field
validateUpdateTaskInput_anyKeys(body) ==
    LET b == body.value IN
    IF ~body.object THEN Invalid("Request body must be a JSON object")
    ELSE IF prop(b, "title").t # "undefined" /\ ~isNonEmptyString(b.title)
    THEN Invalid("title must be a non-empty string")
    ELSE IF prop(b, "title").t # "undefined" /\ length(trim(b.title.v)) > 255
    THEN Invalid("title must be 255 characters or less")
    ELSE IF commonTaskError(b) # "" THEN Invalid(commonTaskError(b))
    ELSE Valid([keys        |-> AllowedUpdateKeys,
                title       |-> IF prop(b, "title").t = "string" THEN <<trim(b.title.v)>> ELSE <<>>,
                description |-> IF prop(b, "description").t = "string"
                                THEN Str(trim(b.description.v))
                                ELSE Nullable(prop(b, "description")),
                status      |-> Opt(prop(b, "status")),
                priority    |-> Opt(prop(b, "priority")),
                due_date    |-> Nullable(prop(b, "due_date")),
                tag_ids     |-> IF prop(b, "tag_ids").t = "array"
                                THEN <<numbersOf(b.tag_ids)>> ELSE <<>>])

validateUpdateTaskInput(body) ==
    LET b == body.value IN
    IF ~body.object THEN Invalid("Request body must be a JSON object")
    ELSE IF DOMAIN b \cap AllowedUpdateKeys = {}
    THEN Invalid("At least one field required: title, description, status, priority, due_date, tag_ids")
    ELSE IF prop(b, "title").t # "undefined" /\ ~isNonEmptyString(b.title)
    THEN Invalid("title must be a non-empty string")
    ELSE IF prop(b, "title").t # "undefined" /\ length(trim(b.title.v)) > 255
    THEN Invalid("title must be 255 characters or less")
    ELSE IF commonTaskError(b) # "" THEN Invalid(commonTaskError(b))
    ELSE Valid([keys        |-> AllowedUpdateKeys,
                title       |-> IF prop(b, "title").t = "string" THEN <<trim(b.title.v)>> ELSE <<>>,
                description |-> IF prop(b, "description").t = "string"
                                THEN Str(trim(b.description.v))
                                ELSE Nullable(prop(b, "description")),
                status      |-> Opt(prop(b, "status")),
                priority    |-> Opt(prop(b, "priority")),
                due_date    |-> Nullable(prop(b, "due_date")),
                tag_ids     |-> IF prop(b, "tag_ids").t = "array"
                                THEN <<numbersOf(b.tag_ids)>> ELSE <<>>])

validateCreateTagInput(body) ==
    LET b == body.value IN
    IF ~body.object THEN Invalid("Request body must be a JSON object")
    ELSE IF ~isNonEmptyString(prop(b, "name")) THEN Invalid("name is required")
    ELSE IF length(trim(b.name.v)) > 50 THEN Invalid("name must be 50 characters or less")
    ELSE IF prop(b, "color").t # "undefined"
            /\ (b.color.t # "string" \/ ~isValidHexColor(b.color.v))
    THEN Invalid("color must be a valid hex color (e.g. #6366f1)")
    ELSE Valid([name  |-> toLowerCase(trim(b.name.v)),
                color |-> Opt(prop(b, "color"))])

\* parseInt(text, 10) on the numerals of the model; <<>> is NaN
parseInt(text) ==
    CASE text = "1" -> <<1>>
      [] text = "2" -> <<2>>
      [] text = "3" -> <<3>>
      [] text = "4" -> <<4>>
      [] text = "5" -> <<5>>
      [] text = "100" -> <<100>>
      [] text = "101" -> <<101>>
      [] text = "1abc" -> <<1>>
      [] text = "0" -> <<0>>
      [] text = "-1" -> <<-1>>
      [] OTHER -> <<>>

parsePositiveInt(value, defaultValue, max) ==
    IF value \in {NULL, ""} THEN defaultValue
    ELSE LET n == parseInt(value) IN
         IF n = <<>> \/ n[1] < 1 THEN defaultValue
         ELSE IF max > 0 /\ n[1] > max THEN max
         ELSE n[1]

\* handleGetAllTasks: the query parameters, or the 400 it answers with
validateTaskQuery(req) ==
    LET statusParam   == searchParams(req, "status")
        priorityParam == searchParams(req, "priority")
    IN  IF statusParam \notin {NULL, ""} /\ statusParam \notin TASK_STATUSES
        THEN Invalid("status must be one of: todo, in_progress, done, cancelled")
        ELSE IF priorityParam \notin {NULL, ""} /\ priorityParam \notin TASK_PRIORITIES
        THEN Invalid("priority must be one of: low, medium, high, critical")
        ELSE Valid([status     |-> statusParam,
                    priority   |-> priorityParam,
                    due_before |-> searchParams(req, "due_before"),
                    search     |-> searchParams(req, "search"),
                    page       |-> parsePositiveInt(searchParams(req, "page"), 1, 0),
                    limit      |-> parsePositiveInt(searchParams(req, "limit"), 20, 100)])


(***************************************************************************)
(* routes/index.ts                                                         *)
(***************************************************************************)
parseId(segment) ==
    IF segment = "" THEN <<>>
    ELSE LET n == parseInt(segment) IN
         IF n # <<>> /\ n[1] > 0 THEN n ELSE <<>>

seg1(req) == IF Len(pathname(req)) >= 1 THEN pathname(req)[1] ELSE ""
seg2(req) == IF Len(pathname(req)) >= 2 THEN pathname(req)[2] ELSE ""

\* the branch of the router a request ends in
route(req) ==
    LET method == req.method IN
    IF pathname(req) = <<"health">> /\ method = "GET" THEN "health"
    ELSE IF seg1(req) = "auth"
    THEN IF seg2(req) = "register" /\ method = "POST" THEN "register"
         ELSE IF seg2(req) = "login" /\ method = "POST" THEN "login"
         ELSE IF seg2(req) = "me" /\ method = "GET" THEN "me"
         ELSE "authNotFound"
    ELSE IF seg1(req) = "tasks"
    THEN IF seg2(req) = "" /\ method = "GET" THEN "getAllTasks"
         ELSE IF seg2(req) = "" /\ method = "POST" THEN "createTask"
         ELSE IF parseId(seg2(req)) = <<>> THEN "taskIdInvalid"
         ELSE IF method = "GET" THEN "getTaskById"
         ELSE IF method = "PATCH" THEN "updateTask"
         ELSE IF method = "DELETE" THEN "deleteTask"
         ELSE "routeNotFound"
    ELSE IF seg1(req) = "tags"
    THEN IF seg2(req) = "" /\ method = "GET" THEN "getTags"
         ELSE IF seg2(req) = "" /\ method = "POST" THEN "createTag"
         ELSE IF parseId(seg2(req)) = <<>> THEN "tagIdInvalid"
         ELSE IF method = "DELETE" THEN "deleteTag"
         ELSE "routeNotFound"
    ELSE "routeNotFound"

\* the branches in which the router calls requireAuth before anything else
requiresAuth(req) == seg1(req) \in {"tasks", "tags"} \/ route(req) = "me"

healthData == [NoData EXCEPT !.kind = "health", !.text = "ok"]

\* the branches that answer without calling a controller
routerResponse(r) ==
    CASE r = "health"        -> rawJsonResponse(TRUE, healthData, "", "", 200)
      [] r = "authNotFound"  -> notFound("Auth route not found")
      [] r = "taskIdInvalid" -> rawJsonResponse(FALSE, NoData, "BAD_REQUEST",
                                                "Task ID must be a positive integer", 400)
      [] r = "tagIdInvalid"  -> rawJsonResponse(FALSE, NoData, "BAD_REQUEST",
                                                "Tag ID must be a positive integer", 400)
      [] OTHER               -> notFound("Route not found")

ControllerRoutes ==
    {"register", "login", "me", "getAllTasks", "createTask", "getTaskById",
     "updateTask", "deleteTask", "getTags", "createTag", "deleteTag"}

\* the controllers that read a JSON body
BodyRoutes == {"register", "login", "createTask", "updateTask", "createTag"}

\* the validation a controller runs before it calls its service
validation(r, req) ==
    CASE r = "register"    -> validateRegisterInput(req.body)
      [] r = "login"       -> validateLoginInput(req.body)
      [] r = "createTask"  -> validateCreateTaskInput(req.body)
      [] r = "updateTask"  -> validateUpdateTaskInput(req.body)
      [] r = "createTag"   -> validateCreateTagInput(req.body)
      [] r = "getAllTasks" -> validateTaskQuery(req)
      [] OTHER             -> Valid([none |-> TRUE])

\* the first await of the service a controller calls
serviceEntry(r) ==
    CASE r = "register"    -> "registerUser"
      [] r = "login"       -> "loginUser"
      [] r = "me"          -> "getProfile"
      [] r = "getAllTasks" -> "getAllTasks"
      [] r = "createTask"  -> "createTask"
      [] r = "getTaskById" -> "getTaskById"
      [] r = "updateTask"  -> "findById"
      [] r = "deleteTask"  -> "deleteTask"
      [] r = "getTags"     -> "getUserTags"
      [] r = "createTag"   -> "createTag"
      [] r = "deleteTag"   -> "deleteTag"

\* router(request, env): the controllers are called without an
\* ExecutionContext, so their ctx parameter is undefined
router(s) ==
    /\ pc[s] = "router"
    /\ LET req  == request[s]
           r    == route(req)
           auth == requireAuth(req)
       IN  IF requiresAuth(req) /\ auth.response # <<>>
           THEN /\ settle(s, fetchFromRouter(Return(auth.response[1])))
                /\ UNCHANGED local
           ELSE IF r \notin ControllerRoutes
           THEN /\ settle(s, fetchFromRouter(Return(routerResponse(r))))
                /\ UNCHANGED local
           ELSE IF r \in BodyRoutes /\ ~req.body.json
           THEN /\ settle(s, fetchFromRouter(Return(
                       badRequest("Request body must be valid JSON", "BAD_REQUEST"))))
                /\ UNCHANGED local
           ELSE IF ~validation(r, req).ok
           THEN /\ settle(s, fetchFromRouter(Return(
                       badRequest(validation(r, req).error, "BAD_REQUEST"))))
                /\ UNCHANGED local
           ELSE /\ local' = [local EXCEPT
                       ![s].auth  = IF requiresAuth(req) THEN auth.auth ELSE <<>>,
                       ![s].id    = IF parseId(seg2(req)) # <<>> THEN parseId(seg2(req))[1] ELSE 0,
                       ![s].input = validation(r, req).value,
                       ![s].ctx   = "undefined",
                       ![s].ret   = IF r = "updateTask" THEN "update" ELSE ""]
                /\ goto(s, serviceEntry(r))
    /\ UNCHANGED <<db, kv, now, request, waitUntil, issued, served>>


(***************************************************************************)
(* D1: the statements the repositories run                                 *)
(***************************************************************************)
EmptyTable == [id \in {} |-> NULL]

insertRow(table, id, row) == (id :> row) @@ table

deleteRow(table, id) == [i \in DOMAIN table \ {id} |-> table[i]]

\* SELECT * FROM users WHERE email = ?
usersByEmail(email) == {id \in DOMAIN users : users[id].email = email}

\* a D1 statement failed; the binding throws an Error
D1Error(message) == Throw(Error(message))

(***************************************************************************)
(* services/auth.service.ts and repositories/user.repository.ts            *)
(***************************************************************************)
\* variant that returns the row as stored
toPublic_row(user) == user

toPublic(user) ==
    [id |-> user.id, email |-> user.email, name |-> user.name,
     created_at |-> user.created_at, updated_at |-> user.updated_at]

issueToken(user) == generateToken(JwtPayload(user.id, user.email, user.name))

AuthResponse(user) ==
    [NoData EXCEPT !.kind = "auth", !.token = <<issueToken(user)>>,
                   !.user = <<toPublic(user)>>]

DUMMY_HASH == "0000000000000000000000000000000000000000:0000000000000000000000000000000000000000000000000000000000000000"

\* registerUser: findByEmail, then hashPassword
registerUser(s) ==
    /\ pc[s] = "registerUser"
    /\ LET input == local[s].input[1] IN
       IF usersByEmail(input.email) # {}
       THEN /\ settle(s, fetchFromRouter(Throw(
                   AppError_conflict("An account with this email already exists"))))
            /\ UNCHANGED local
       ELSE /\ \E salt \in Salts :
                   local' = [local EXCEPT ![s].hash = <<hashPassword(input.password, salt)>>]
            /\ goto(s, "createUser")
    /\ UNCHANGED <<db, kv, now, request, waitUntil, issued, served>>

\* createUser: INSERT INTO users (email, name, password)
createUser(s) ==
    /\ pc[s] = "createUser"
    /\ LET input == local[s].input[1]
           id    == sqlite_sequence.users + 1
       IN  IF usersByEmail(input.email) # {}
           THEN /\ settle(s, fetchFromRouter(
                       D1Error("D1_ERROR: UNIQUE constraint failed: users.email")))
                /\ UNCHANGED <<users, sqlite_sequence, last_insert_rowid>>
           ELSE /\ users' = insertRow(users, id,
                       [id |-> id, email |-> input.email, name |-> input.name,
                        password |-> local[s].hash[1],
                        created_at |-> now, updated_at |-> now])
                /\ sqlite_sequence' = [sqlite_sequence EXCEPT !.users = id]
                /\ last_insert_rowid' = id
                /\ goto(s, "createUser_select")
    /\ UNCHANGED <<tasks, tags, task_tags, kv, now, request, local, waitUntil, issued, served>>

\* createUser: SELECT * FROM users WHERE id = last_insert_rowid(),
\* then issueToken and the 201 of registerController
createUser_select(s) ==
    /\ pc[s] = "createUser_select"
    /\ IF last_insert_rowid \in DOMAIN users
       THEN LET user == users[last_insert_rowid] IN
            /\ settle(s, fetchFromRouter(Return(created(AuthResponse(user)))))
            /\ issued' = issued \cup {issueToken(user)}
       ELSE /\ settle(s, fetchFromRouter(Throw(Error("Failed to retrieve user after insert"))))
            /\ UNCHANGED issued
    /\ UNCHANGED <<db, kv, now, request, local, waitUntil, served>>

\* variant that tells the client which of the two checks failed
loginFailure_distinct(user, isValid) ==
    IF user = <<>> THEN AppError_unauthorized("No account with this email")
    ELSE AppError_unauthorized("Invalid email or password")

\* the error of a failed login
loginFailure(user, isValid) == AppError_unauthorized("Invalid email or password")

\* loginUser: findByEmail, verifyPassword against the stored or the dummy
\* hash, issueToken
loginUser(s) ==
    /\ pc[s] = "loginUser"
    /\ LET input      == local[s].input[1]
           found      == usersByEmail(input.email)
           user       == IF found = {} THEN <<>> ELSE <<users[CHOOSE id \in found : TRUE]>>
           storedHash == IF user # <<>> THEN user[1].password ELSE DUMMY_HASH
           isValid    == verifyPassword(input.password, storedHash)
       IN  /\ local' = [local EXCEPT ![s].row = user, ![s].verified = <<storedHash>>]
           /\ IF user = <<>> \/ ~isValid
              THEN /\ settle(s, fetchFromRouter(Throw(loginFailure(user, isValid))))
                   /\ UNCHANGED issued
              ELSE /\ settle(s, fetchFromRouter(Return(ok(AuthResponse(user[1])))))
                   /\ issued' = issued \cup {issueToken(user[1])}
    /\ UNCHANGED <<db, kv, now, request, waitUntil, served>>

\* getProfile: findById
getProfile(s) ==
    /\ pc[s] = "getProfile"
    /\ LET userId == local[s].auth[1].userId IN
       IF userId \in DOMAIN users
       THEN settle(s, fetchFromRouter(Return(ok(
                [NoData EXCEPT !.kind = "user", !.user = <<toPublic(users[userId])>>]))))
       ELSE settle(s, fetchFromRouter(Throw(AppError_notFound("User not found"))))
    /\ UNCHANGED <<db, kv, now, request, local, waitUntil, issued, served>>

(***************************************************************************)
(* repositories/task.repository.ts                                         *)
(***************************************************************************)
truthy(v) == v \notin {NULL, ""}

\* ORDER BY CASE priority WHEN 'critical' THEN 1 ... ELSE 4 END
priorityRank(p) ==
    CASE p = "critical" -> 1
      [] p = "high"     -> 2
      [] p = "medium"   -> 3
      [] OTHER          -> 4

\* the ISO dates of the model in ascending order; a NULL due_date sorts as
\* '9999-12-31'
dateRank(d) ==
    CASE d = "2026-01-01" -> 1
      [] d = "2026-06-30" -> 2
      [] d = "2026-12-31" -> 3
      [] OTHER            -> 9

\* title LIKE '%search%' on the titles of the model
titleLike(title, pattern) ==
    \/ title = pattern
    \/ <<title, pattern>> \in {<<"Write report", "report">>, <<"Write report", "REPORT">>,
                               <<"Buy milk", "milk">>}

\* the WHERE clause that findAll builds
matches(row, userId, params) ==
    /\ row.user_id = userId
    /\ truthy(params.status) => row.status = params.status
    /\ truthy(params.priority) => row.priority = params.priority
    /\ truthy(params.due_before) =>
          row.due_date # NULL /\ dateRank(row.due_date) <= dateRank(params.due_before)
    /\ truthy(params.search) => titleLike(row.title, params.search)

orderedBefore(a, b) ==
    LET ka == <<priorityRank(tasks[a].priority), dateRank(tasks[a].due_date)>>
        kb == <<priorityRank(tasks[b].priority), dateRank(tasks[b].due_date)>>
    IN  \/ ka[1] < kb[1]
        \/ ka[1] = kb[1] /\ ka[2] < kb[2]
        \/ ka = kb /\ tasks[a].created_at > tasks[b].created_at
        \/ ka = kb /\ tasks[a].created_at = tasks[b].created_at /\ a < b

RECURSIVE SortRows(_)
SortRows(ids) ==
    IF ids = {} THEN <<>>
    ELSE LET first == CHOOSE a \in ids : \A b \in ids \ {a} : orderedBefore(a, b)
         IN  <<tasks[first]>> \o SortRows(ids \ {first})

Max(a, b) == IF a > b THEN a ELSE b
Min(a, b) == IF a < b THEN a ELSE b

findAll_page(params) == Max(1, params.page)
findAll_limit(params) == Min(100, Max(1, params.limit))

\* SELECT COUNT(*) as total FROM tasks WHERE ...
findAll_total(userId, params) ==
    Cardinality({id \in DOMAIN tasks : matches(tasks[id], userId, params)})

\* SELECT * FROM tasks WHERE ... ORDER BY ... LIMIT ? OFFSET ?
findAll_results(userId, params) ==
    LET sorted == SortRows({id \in DOMAIN tasks : matches(tasks[id], userId, params)})
        offset == (findAll_page(params) - 1) * findAll_limit(params)
    IN  SubSeq(sorted, offset + 1, Min(offset + findAll_limit(params), Len(sorted)))

\* SELECT t.id, t.name, t.color FROM tags t JOIN task_tags tt ... WHERE
\* tt.task_id = ?   (the ORDER BY t.name is not represented: a set)
attachTags(taskId) ==
    {[id |-> tags[t].id, name |-> tags[t].name, color |-> tags[t].color] :
        t \in {u \in DOMAIN tags : <<taskId, u>> \in task_tags}}

\* { ...task, tags }
TaskResponse(task, tagset) ==
    [id |-> task.id, user_id |-> task.user_id, title |-> task.title,
     description |-> task.description, status |-> task.status,
     priority |-> task.priority, due_date |-> task.due_date,
     completed_at |-> task.completed_at, ai_summary |-> task.ai_summary,
     ai_sentiment |-> task.ai_sentiment, created_at |-> task.created_at,
     updated_at |-> task.updated_at, tags |-> tagset]

\* variant without the owner filter
selectTask_anyOwner(id, userId) ==
    IF id \in DOMAIN tasks THEN <<tasks[id]>> ELSE <<>>

\* SELECT * FROM tasks WHERE id = ? AND user_id = ?
selectTask(id, userId) ==
    IF id \in DOMAIN tasks /\ tasks[id].user_id = userId THEN <<tasks[id]>> ELSE <<>>

\* the row that INSERT INTO tasks (user_id, title, description, status,
\* priority, due_date) stores, with the column defaults of the schema
create_row(id, userId, input) ==
    [id |-> id, user_id |-> userId, title |-> input.title,
     description |-> IF input.description # <<>> THEN input.description[1] ELSE NULL,
     status |-> IF input.status # <<>> THEN input.status[1] ELSE "todo",
     priority |-> IF input.priority # <<>> THEN input.priority[1] ELSE "medium",
     due_date |-> IF input.due_date # <<>> THEN input.due_date[1] ELSE NULL,
     completed_at |-> <<>>,
     ai_summary |-> NULL, ai_sentiment |-> NULL,
     created_at |-> now, updated_at |-> now]

\* input.x ?? null of a nullable property
orNull(v) == IF v.t = "string" THEN v.v ELSE NULL

\* variant that stamps completed_at on every update to done
update_row_restamp(row, existing, input) ==
    LET status == IF input.status # <<>> THEN input.status[1] ELSE row.status
    IN  [row EXCEPT
          !.updated_at   = now,
          !.title        = IF input.title # <<>> THEN input.title[1] ELSE @,
          !.description  = IF "description" \in input.keys THEN orNull(input.description) ELSE @,
          !.status       = status,
          !.completed_at = IF input.status = <<>> THEN @
                           ELSE IF status = "done" THEN <<now>>
                           ELSE IF status # "done" /\ existing.status = "done" THEN <<>>
                           ELSE @,
          !.priority     = IF input.priority # <<>> THEN input.priority[1] ELSE @,
          !.due_date     = IF "due_date" \in input.keys THEN orNull(input.due_date) ELSE @]

\* the row after UPDATE tasks SET <setClauses> of update(), built from the
\* input and from the task as it was read before the statement
update_row(row, existing, input) ==
    LET status == IF input.status # <<>> THEN input.status[1] ELSE row.status
    IN  [row EXCEPT
          !.updated_at   = now,
          !.title        = IF input.title # <<>> THEN input.title[1] ELSE @,
          !.description  = IF "description" \in input.keys THEN orNull(input.description) ELSE @,
          !.status       = status,
          !.completed_at = IF input.status = <<>> THEN @
                           ELSE IF status = "done" /\ existing.status # "done" THEN <<now>>
                           ELSE IF status # "done" /\ existing.status = "done" THEN <<>>
                           ELSE @,
          !.priority     = IF input.priority # <<>> THEN input.priority[1] ELSE @,
          !.due_date     = IF "due_date" \in input.keys THEN orNull(input.due_date) ELSE @]

\* setClauses.length > 1
update_hasChanges(input) ==
    \/ input.title # <<>>
    \/ "description" \in input.keys
    \/ input.status # <<>>
    \/ input.priority # <<>>
    \/ "due_date" \in input.keys

\* ON DELETE CASCADE of task_tags
cascadeTask(links, taskId) == {l \in links : l[1] # taskId}
cascadeTag(links, tagId) == {l \in links : l[2] # tagId}

(***************************************************************************)
(* services/task.service.ts                                                *)
(***************************************************************************)
cacheKey_list(userId) == <<"tasks", userId>>
cacheKey_item(userId, taskId) == <<"task", userId, taskId>>

CACHE_TTL == 60

\* JSON text of a value made of strings, numbers, nulls, arrays and objects,
\* and the value JSON.parse gives back for it
JSON_stringify(value) == [json |-> value]
JSON_parse(text) == text.json

isSimple(params) ==
    /\ ~truthy(params.status) /\ ~truthy(params.priority)
    /\ ~truthy(params.search) /\ ~truthy(params.due_before)

cacheable(params) == isSimple(params) /\ params.page = 1

\* variant that counts the last full page as having a successor
hasMore_inclusive(result) == result.page * result.limit <= result.total

hasMore(result) == result.page * result.limit < result.total

tasksData(result) ==
    [NoData EXCEPT !.kind = "tasks", !.tasks = result.tasks,
                   !.meta = <<[page |-> result.page, limit |-> result.limit,
                               total |-> result.total, hasMore |-> hasMore(result)]>>]

taskData(task) == [NoData EXCEPT !.kind = "task", !.task = <<task>>]

messageData(text) == [NoData EXCEPT !.kind = "message", !.text = text]

userId(s) == local[s].auth[1].userId

taskNotFound(id) == AppError_notFound("Task " \o ToString(id) \o " not found")

\* getAllTasks: cache.get of the list key for simple first-page requests
getAllTasks(s) ==
    /\ pc[s] = "getAllTasks"
    /\ LET params == local[s].input[1]
           cached == kvGet(cacheKey_list(userId(s)))
       IN  IF cacheable(params) /\ cached # <<>>
           THEN settle(s, fetchFromRouter(Return(ok(tasksData(JSON_parse(cached[1]))))))
           ELSE goto(s, "findAll_count")
    /\ UNCHANGED <<db, kv, now, request, local, waitUntil, issued, served>>

\* findAll: the COUNT(*) query
findAll_count(s) ==
    /\ pc[s] = "findAll_count"
    /\ local' = [local EXCEPT ![s].total = findAll_total(userId(s), local[s].input[1])]
    /\ goto(s, "findAll_select")
    /\ UNCHANGED <<db, kv, now, request, waitUntil, issued, served>>

\* findAll: the page query
findAll_select(s) ==
    /\ pc[s] = "findAll_select"
    /\ local' = [local EXCEPT ![s].rows = findAll_results(userId(s), local[s].input[1])]
    /\ goto(s, "findAll_tags")
    /\ UNCHANGED <<db, kv, now, request, waitUntil, issued, served>>

\* findAll: toTaskResponse for every row of the page; the result goes to
\* the cache write or straight to the controller
findAll_tags(s) ==
    /\ pc[s] = "findAll_tags"
    /\ LET params == local[s].input[1]
           rows   == local[s].rows
           result == [tasks |-> [i \in 1..Len(rows) |-> TaskResponse(rows[i], attachTags(rows[i].id))],
                      total |-> local[s].total,
                      page  |-> findAll_page(params),
                      limit |-> findAll_limit(params)]
       IN  IF cacheable(params)
           THEN /\ local' = [local EXCEPT ![s].result = <<result>>]
                /\ goto(s, "getAllTasks_put")
           ELSE /\ settle(s, fetchFromRouter(Return(ok(tasksData(result)))))
                /\ UNCHANGED local
    /\ UNCHANGED <<db, kv, now, request, waitUntil, issued, served>>

\* getAllTasks: cache.put of the list, then the 200 of handleGetAllTasks
getAllTasks_put(s) ==
    /\ pc[s] = "getAllTasks_put"
    /\ kv' = kvPut(kv, cacheKey_list(userId(s)), JSON_stringify(local[s].result[1]), CACHE_TTL)
    /\ settle(s, fetchFromRouter(Return(ok(tasksData(local[s].result[1])))))
    /\ UNCHANGED <<db, now, request, local, waitUntil, issued, served>>

\* getTaskById: cache.get of the item key
getTaskById(s) ==
    /\ pc[s] = "getTaskById"
    /\ LET cached == kvGet(cacheKey_item(userId(s), local[s].id)) IN
       IF cached # <<>>
       THEN /\ settle(s, fetchFromRouter(Return(ok(taskData(JSON_parse(cached[1]))))))
            /\ UNCHANGED local
       ELSE /\ local' = [local EXCEPT ![s].ret = "getTaskById"]
            /\ goto(s, "findById")
    /\ UNCHANGED <<db, kv, now, request, waitUntil, issued, served>>

\* the id findById is called with: the id just inserted, or the :id
findById_id(s) == IF local[s].ret = "create" THEN local[s].rowid ELSE local[s].id

\* what becomes of a null from findById in each caller
findById_null(s) ==
    IF local[s].ret = "create"
    THEN Error("Failed to retrieve task after insert")
    ELSE taskNotFound(local[s].id)

\* findById: SELECT * FROM tasks WHERE id = ? AND user_id = ?
findById(s) ==
    /\ pc[s] = "findById"
    /\ LET row == selectTask(findById_id(s), userId(s)) IN
       IF row = <<>>
       THEN /\ settle(s, fetchFromRouter(Throw(findById_null(s))))
            /\ UNCHANGED local
       ELSE /\ local' = [local EXCEPT ![s].row = row]
            /\ goto(s, "toTaskResponse")
    /\ UNCHANGED <<db, kv, now, request, waitUntil, issued, served>>

\* an invalidation that never passes the task id
invalidateUserCache_keys_listOnly(s) == {cacheKey_list(userId(s))}

\* the cache keys invalidateUserCache deletes for each caller
invalidateUserCache_keys(s) ==
    IF local[s].ret = "create"
    THEN {cacheKey_list(userId(s))}
    ELSE {cacheKey_list(userId(s)), cacheKey_item(userId(s), local[s].id)}

\* toTaskResponse: the tags query of findById, then back to the caller
toTaskResponse(s) ==
    /\ pc[s] = "toTaskResponse"
    /\ LET task == TaskResponse(local[s].row[1], attachTags(local[s].row[1].id))
           ret  == local[s].ret
       IN  IF ret = "update"
           THEN /\ local' = [local EXCEPT ![s].existing = <<task>>]
                /\ goto(s, "update")
           ELSE IF ret = "getTaskById"
           THEN /\ local' = [local EXCEPT ![s].result = <<task>>]
                /\ goto(s, "getTaskById_put")
           ELSE /\ local' = [local EXCEPT ![s].result = <<task>>,
                                          ![s].pending = invalidateUserCache_keys(s)]
                /\ goto(s, "invalidateUserCache")
    /\ UNCHANGED <<db, kv, now, request, waitUntil, issued, served>>

\* getTaskById: cache.put of the item, then the 200 of handleGetTaskById
getTaskById_put(s) ==
    /\ pc[s] = "getTaskById_put"
    /\ kv' = kvPut(kv, cacheKey_item(userId(s), local[s].id),
                   JSON_stringify(local[s].result[1]), CACHE_TTL)
    /\ settle(s, fetchFromRouter(Return(ok(taskData(local[s].result[1])))))
    /\ UNCHANGED <<db, now, request, local, waitUntil, issued, served>>

\* create: INSERT INTO tasks
task_create(s) ==
    /\ pc[s] = "createTask"
    /\ LET id == sqlite_sequence.tasks + 1 IN
       /\ tasks' = insertRow(tasks, id, create_row(id, userId(s), local[s].input[1]))
       /\ sqlite_sequence' = [sqlite_sequence EXCEPT !.tasks = id]
       /\ last_insert_rowid' = id
    /\ goto(s, "create_rowid")
    /\ UNCHANGED <<users, tags, task_tags, kv, now, request, local, waitUntil, issued, served>>

\* create: SELECT last_insert_rowid() as id
task_create_rowid(s) ==
    /\ pc[s] = "create_rowid"
    /\ local' = [local EXCEPT ![s].rowid = last_insert_rowid, ![s].ret = "create"]
    /\ LET tag_ids == local[s].input[1].tag_ids IN
       IF tag_ids # <<>> /\ Len(tag_ids[1]) > 0
       THEN goto(s, "attachTagsToTask")
       ELSE goto(s, "findById")
    /\ UNCHANGED <<db, kv, now, request, waitUntil, issued, served>>

\* attachTagsToTask: db.batch of INSERT OR IGNORE INTO task_tags; the batch
\* is one transaction and fails as a whole on a foreign key violation
attachTagsToTask(s) ==
    /\ pc[s] = "attachTagsToTask"
    /\ LET taskId == findById_id(s)
           tagIds == local[s].input[1].tag_ids[1]
           tagSet == {tagIds[i] : i \in 1..Len(tagIds)}
       IN  IF taskId \in DOMAIN tasks /\ tagSet \subseteq DOMAIN tags
           THEN /\ task_tags' = task_tags \cup {<<taskId, t>> : t \in tagSet}
                /\ goto(s, "findById")
           ELSE /\ settle(s, fetchFromRouter(D1Error("D1_ERROR: FOREIGN KEY constraint failed")))
                /\ UNCHANGED task_tags
    /\ UNCHANGED <<users, tasks, tags, sqlite_sequence, last_insert_rowid,
                   kv, now, request, local, waitUntil, issued, served>>

\* update: UPDATE tasks SET ... WHERE id = ? AND user_id = ?
task_update(s) ==
    /\ pc[s] = "update"
    /\ LET input == local[s].input[1]
           id    == local[s].id
           row   == selectTask(id, userId(s))
       IN  /\ IF update_hasChanges(input) /\ row # <<>>
              THEN tasks' = [tasks EXCEPT ![id] = update_row(row[1], local[s].existing[1], input)]
              ELSE UNCHANGED tasks
           /\ local' = [local EXCEPT ![s].ret = "updated"]
           /\ IF input.tag_ids # <<>>
              THEN goto(s, "update_deleteTags")
              ELSE goto(s, "findById")
    /\ UNCHANGED <<users, tags, task_tags, sqlite_sequence, last_insert_rowid,
                   kv, now, request, waitUntil, issued, served>>

\* update: DELETE FROM task_tags WHERE task_id = ?
task_update_deleteTags(s) ==
    /\ pc[s] = "update_deleteTags"
    /\ task_tags' = cascadeTask(task_tags, local[s].id)
    /\ IF Len(local[s].input[1].tag_ids[1]) > 0
       THEN goto(s, "attachTagsToTask")
       ELSE goto(s, "findById")
    /\ UNCHANGED <<users, tasks, tags, sqlite_sequence, last_insert_rowid,
                   kv, now, request, local, waitUntil, issued, served>>

\* remove: DELETE FROM tasks WHERE id = ? AND user_id = ?
task_remove(s) ==
    /\ pc[s] = "deleteTask"
    /\ LET id == local[s].id IN
       IF selectTask(id, userId(s)) # <<>>
       THEN /\ tasks' = deleteRow(tasks, id)
            /\ task_tags' = cascadeTask(task_tags, id)
            /\ local' = [local EXCEPT ![s].ret = "deleted",
                                      ![s].pending = invalidateUserCache_keys(s)]
            /\ goto(s, "invalidateUserCache")
       ELSE /\ settle(s, fetchFromRouter(Throw(taskNotFound(id))))
            /\ UNCHANGED <<tasks, task_tags, local>>
    /\ UNCHANGED <<users, tags, sqlite_sequence, last_insert_rowid,
                   kv, now, request, waitUntil, issued, served>>

(***************************************************************************)
(* services/task.service.ts: enrichWithAI                                  *)
(***************************************************************************)
\* outputs of the language model
GoodJson == "{\"summary\":\"Report due soon\",\"sentiment\":\"negative\"}"
\* (fence) stands for the three backquotes of a Markdown code fence
FencedJson == "(fence)json {\"summary\":\"Report due soon\",\"sentiment\":\"negative\"} (fence)"
WrappedJson == "Here is the JSON: {\"summary\":\"Report due soon\",\"sentiment\":\"negative\"} Done."
OddSentiment == "{\"summary\":\"Report due soon\",\"sentiment\":\"urgent\"}"
LongSummary == "{\"summary\":\"summary201\",\"sentiment\":\"neutral\"}"
EmptySummary == "{\"summary\":\"\",\"sentiment\":\"positive\"}"
NumberSummary == "{\"summary\":42,\"sentiment\":\"positive\"}"
NoSentiment == "{\"summary\":\"Report due soon\"}"
TrailingBraces == "{\"summary\":\"Report due soon\",\"sentiment\":\"negative\"} (as {requested})"
NumberSentiment == "{\"summary\":\"Report due soon\",\"sentiment\":1}"
BadJson == "{summary: Report due soon}"
NoJson == "I cannot analyse this task."

\* what env.AI.run resolves with: { response }, { result: { response } },
\* or an object with neither
AiResults ==
    {[shape |-> "response", text |-> text] :
        text \in {GoodJson, FencedJson, WrappedJson, OddSentiment, LongSummary,
                  EmptySummary, NumberSummary, NoSentiment, NumberSentiment,
                  TrailingBraces, BadJson, NoJson, ""}}
    \cup {[shape |-> "result.response", text |-> GoodJson], [shape |-> "other", text |-> ""]}

\* aiResult.response ?? aiResult.result?.response ?? ''
responseStr(aiResult) ==
    IF aiResult.shape \in {"response", "result.response"} THEN aiResult.text ELSE ""

\* the replace() chain that removes the code fences, then trim()
stripFences(text) ==
    CASE text = FencedJson -> GoodJson
      [] OTHER             -> text

\* raw.match(/\{[\s\S]*\}/): from the first { to the last }
matchJson(raw) ==
    CASE raw = WrappedJson -> <<GoodJson>>
      [] raw = TrailingBraces ->
            <<"{\"summary\":\"Report due soon\",\"sentiment\":\"negative\"} (as {requested}">>
      [] raw \in {GoodJson, OddSentiment, LongSummary, EmptySummary, NumberSummary,
                  NoSentiment, NumberSentiment, BadJson} -> <<raw>>
      [] OTHER -> <<>>

\* JSON.parse(match[0]); <<>> is the SyntaxError
JSON_parse_match(text) ==
    CASE text = GoodJson      -> <<[summary |-> Str("Report due soon"), sentiment |-> Str("negative")]>>
      [] text = OddSentiment  -> <<[summary |-> Str("Report due soon"), sentiment |-> Str("urgent")]>>
      [] text = LongSummary   -> <<[summary |-> Str("summary201"), sentiment |-> Str("neutral")]>>
      [] text = EmptySummary  -> <<[summary |-> Str(""), sentiment |-> Str("positive")]>>
      [] text = NumberSummary -> <<[summary |-> Num(42), sentiment |-> Str("positive")]>>
      [] text = NoSentiment   -> <<[summary |-> Str("Report due soon"), sentiment |-> Undefined]>>
      [] text = NumberSentiment -> <<[summary |-> Str("Report due soon"), sentiment |-> Num(1)]>>
      [] OTHER                -> <<>>

validSentiments == {"positive", "neutral", "negative"}

enrich_sentiment(parsed) ==
    IF parsed.sentiment.t = "string" /\ parsed.sentiment.v \in validSentiments
    THEN parsed.sentiment.v ELSE "neutral"

\* a summary stored at its full length
slice200_whole(text) == text

\* slice(0, 200)
slice200(text) ==
    CASE text = "summary201" -> "summary200"
      [] OTHER               -> text

enrich_summary(parsed) ==
    IF parsed.summary.t = "string" THEN slice200(parsed.summary.v) ELSE ""

\* a guard that lets every summary through
hasSummary_always(summary) == TRUE

\* if (summary)
hasSummary(summary) == summary # ""

\* an enrichment run handed to waitUntil: its arguments, where it is
\* suspended, what it got from the model, which await threw, the event it
\* logged last and the number of requests received when it ended
Enrichment(task) ==
    [userId |-> task.user_id, taskId |-> task.id, title |-> task.title,
     description |-> task.description,
     pc |-> "enrichWithAI", binding |-> "", result |-> <<>>, threw |-> "",
     summary |-> "", sentiment |-> "", event |-> "", at |-> 0]

\* invalidateUserCache: one cache.delete; after the last one the service
\* returns: createTask calls ctx.waitUntil first, which throws a TypeError
\* when ctx is undefined
invalidateUserCache(s) ==
    /\ pc[s] = "invalidateUserCache"
    /\ \E key \in local[s].pending :
          /\ kv' = kvDelete(kv, key)
          /\ local' = [local EXCEPT ![s].pending = @ \ {key}]
          /\ IF local[s].pending # {key}
             THEN /\ UNCHANGED <<pc, outcome, waitUntil>>
             ELSE IF local[s].ret = "create"
             THEN IF local[s].ctx = "undefined"
                  THEN /\ settle(s, fetchFromRouter(Throw(Error(
                              "Cannot read properties of undefined (reading 'waitUntil')"))))
                       /\ UNCHANGED waitUntil
                  ELSE /\ waitUntil' = waitUntil \cup {Enrichment(local[s].result[1])}
                       /\ settle(s, fetchFromRouter(Return(created(taskData(local[s].result[1])))))
             ELSE IF local[s].ret = "updated"
             THEN /\ settle(s, fetchFromRouter(Return(ok(taskData(local[s].result[1])))))
                  /\ UNCHANGED waitUntil
             ELSE /\ settle(s, fetchFromRouter(Return(ok(messageData(
                         "Task " \o ToString(local[s].id) \o " deleted successfully")))))
                  /\ UNCHANGED waitUntil
    /\ UNCHANGED <<db, now, request, issued, served>>

\* the steps of an enrichment run
resume(run, next) == waitUntil' = (waitUntil \ {run}) \cup {next}

ended(run, event, threw) ==
    [run EXCEPT !.pc = "ended", !.event = event, !.threw = threw, !.at = served]

\* enrichWithAI up to the call of env.AI.run
enrichWithAI(run) ==
    /\ run.pc = "enrichWithAI"
    /\ \E binding \in {"AI", "undefined"} :
          IF binding = "undefined"
          THEN resume(run, [ended(run, "ai_skipped", "") EXCEPT !.binding = binding])
          ELSE resume(run, [run EXCEPT !.pc = "AI.run", !.binding = binding])
    /\ UNCHANGED <<db, kv, now, pc, request, local, outcome, issued, served>>

\* env.AI.run settles: the output is cleaned, matched and parsed
enrichWithAI_run(run) ==
    /\ run.pc = "AI.run"
    /\ \/ resume(run, ended(run, "ai_enrich_error", "AI.run"))
       \/ \E result \in AiResults :
             LET got   == [run EXCEPT !.result = <<result>>]
                 raw   == stripFences(responseStr(result))
                 match == matchJson(raw)
             IN  IF match = <<>>
                 THEN resume(run, ended(got, "ai_bad_response", ""))
                 ELSE LET parsed == JSON_parse_match(match[1]) IN
                      IF parsed = <<>>
                      THEN resume(run, ended(got, "ai_enrich_error", "JSON.parse"))
                      ELSE LET sentiment == enrich_sentiment(parsed[1])
                               summary   == enrich_summary(parsed[1])
                           IN  IF hasSummary(summary)
                               THEN resume(run, [got EXCEPT !.pc = "updateAiFields",
                                                            !.summary = summary,
                                                            !.sentiment = sentiment])
                               ELSE resume(run, ended(got, "", ""))
    /\ UNCHANGED <<db, kv, now, pc, request, local, outcome, issued, served>>

\* the UPDATE without its WHERE clause
updateAiFields_noWhere(table, id, uid, aiSummary, aiSentiment) ==
    [i \in DOMAIN table |-> [table[i] EXCEPT !.ai_summary = aiSummary,
                                             !.ai_sentiment = aiSentiment,
                                             !.updated_at = now]]

\* UPDATE tasks SET ai_summary = ?, ai_sentiment = ?, updated_at =
\* datetime('now') WHERE id = ? AND user_id = ?
updateAiFields(table, id, uid, aiSummary, aiSentiment) ==
    IF id \in DOMAIN table /\ table[id].user_id = uid
    THEN [table EXCEPT ![id] = [@ EXCEPT !.ai_summary = aiSummary,
                                         !.ai_sentiment = aiSentiment,
                                         !.updated_at = now]]
    ELSE table

\* the await of updateAiFields
enrichWithAI_updateAiFields(run) ==
    /\ run.pc = "updateAiFields"
    /\ \/ /\ resume(run, ended(run, "ai_enrich_error", "updateAiFields"))
          /\ UNCHANGED tasks
       \/ /\ tasks' = updateAiFields(tasks, run.taskId, run.userId, run.summary, run.sentiment)
          /\ resume(run, [run EXCEPT !.pc = "cache.delete"])
    /\ UNCHANGED <<users, tags, task_tags, sqlite_sequence, last_insert_rowid,
                   kv, now, pc, request, local, outcome, issued, served>>

\* the await of env.CACHE.delete(cacheKey.item(userId, taskId))
enrichWithAI_delete(run) ==
    /\ run.pc = "cache.delete"
    /\ \/ /\ resume(run, ended(run, "ai_enrich_error", "cache.delete"))
          /\ UNCHANGED kv
       \/ /\ kv' = kvDelete(kv, cacheKey_item(run.userId, run.taskId))
          /\ resume(run, ended(run, "ai_enriched", ""))
    /\ UNCHANGED <<db, now, pc, request, local, outcome, issued, served>>

EnrichmentSteps ==
    \E run \in waitUntil :
        \/ enrichWithAI(run)
        \/ enrichWithAI_run(run)
        \/ enrichWithAI_updateAiFields(run)
        \/ enrichWithAI_delete(run)

(***************************************************************************)
(* services/tag.service.ts and repositories/tag.repository.ts              *)
(***************************************************************************)
tagsOfUser(uid) == {tags[t] : t \in {u \in DOMAIN tags : tags[u].user_id = uid}}

\* getUserTags: SELECT * FROM tags WHERE user_id = ?  (the ORDER BY name is
\* not represented: a set)
getUserTags(s) ==
    /\ pc[s] = "getUserTags"
    /\ settle(s, fetchFromRouter(Return(ok(
           [NoData EXCEPT !.kind = "tags", !.tags = tagsOfUser(userId(s))]))))
    /\ UNCHANGED <<db, kv, now, request, local, waitUntil, issued, served>>

\* the INSERT on a tags table without UNIQUE(user_id, name)
tag_create_noUnique(s) ==
    /\ pc[s] = "createTag"
    /\ LET input == local[s].input[1]
           id    == sqlite_sequence.tags + 1
       IN  /\ tags' = insertRow(tags, id,
                  [id |-> id, user_id |-> userId(s), name |-> input.name,
                   color |-> IF input.color # <<>> THEN input.color[1] ELSE "#6366f1",
                   created_at |-> now])
           /\ sqlite_sequence' = [sqlite_sequence EXCEPT !.tags = id]
           /\ last_insert_rowid' = id
           /\ goto(s, "createTag_select")
    /\ UNCHANGED <<users, tasks, task_tags, kv, now, request, local, waitUntil, issued, served>>

\* create: INSERT INTO tags; createTag turns the UNIQUE(user_id, name)
\* failure into a 409
tag_create(s) ==
    /\ pc[s] = "createTag"
    /\ LET input == local[s].input[1]
           id    == sqlite_sequence.tags + 1
       IN  IF \E t \in tagsOfUser(userId(s)) : t.name = input.name
           THEN /\ settle(s, fetchFromRouter(Throw(AppError_conflict(
                       "Tag \"" \o input.name \o "\" already exists"))))
                /\ UNCHANGED <<tags, sqlite_sequence, last_insert_rowid>>
           ELSE /\ tags' = insertRow(tags, id,
                       [id |-> id, user_id |-> userId(s), name |-> input.name,
                        color |-> IF input.color # <<>> THEN input.color[1] ELSE "#6366f1",
                        created_at |-> now])
                /\ sqlite_sequence' = [sqlite_sequence EXCEPT !.tags = id]
                /\ last_insert_rowid' = id
                /\ goto(s, "createTag_select")
    /\ UNCHANGED <<users, tasks, task_tags, kv, now, request, local, waitUntil, issued, served>>

\* create: SELECT * FROM tags WHERE id = last_insert_rowid(), then the 201
tag_create_select(s) ==
    /\ pc[s] = "createTag_select"
    /\ IF last_insert_rowid \in DOMAIN tags
       THEN settle(s, fetchFromRouter(Return(created(
                [NoData EXCEPT !.kind = "tag", !.tag = <<tags[last_insert_rowid]>>]))))
       ELSE settle(s, fetchFromRouter(Throw(Error("Failed to retrieve tag after insert"))))
    /\ UNCHANGED <<db, kv, now, request, local, waitUntil, issued, served>>

\* a remove that does not look at meta.changes: 200 whether or not a row went
tag_remove_ignoreChanges(s) ==
    /\ pc[s] = "deleteTag"
    /\ LET id == local[s].id IN
       /\ tags' = IF id \in DOMAIN tags /\ tags[id].user_id = userId(s)
                  THEN deleteRow(tags, id) ELSE tags
       /\ task_tags' = IF id \in DOMAIN tags /\ tags[id].user_id = userId(s)
                       THEN cascadeTag(task_tags, id) ELSE task_tags
       /\ settle(s, fetchFromRouter(Return(ok(messageData(
              "Tag " \o ToString(id) \o " deleted successfully")))))
    /\ UNCHANGED <<users, tasks, sqlite_sequence, last_insert_rowid,
                   kv, now, request, local, waitUntil, issued, served>>

\* remove: DELETE FROM tags WHERE id = ? AND user_id = ?
tag_remove(s) ==
    /\ pc[s] = "deleteTag"
    /\ LET id == local[s].id IN
       IF id \in DOMAIN tags /\ tags[id].user_id = userId(s)
       THEN /\ tags' = deleteRow(tags, id)
            /\ task_tags' = cascadeTag(task_tags, id)
            /\ settle(s, fetchFromRouter(Return(ok(messageData(
                   "Tag " \o ToString(id) \o " deleted successfully")))))
       ELSE /\ settle(s, fetchFromRouter(Throw(
                   AppError_notFound("Tag " \o ToString(id) \o " not found"))))
            /\ UNCHANGED <<tags, task_tags>>
    /\ UNCHANGED <<users, tasks, sqlite_sequence, last_insert_rowid,
                   kv, now, request, local, waitUntil, issued, served>>

(***************************************************************************)
(* Failures of the bindings                                                *)
(***************************************************************************)
\* what an await can reject with: the Error of a failed D1 or KV call, a
\* plain object with status and message, or any other value
Thrown ==
    {Error("D1_ERROR: no such table"),
     Error("KV GET failed: 500 Internal Server Error"),
     [kind |-> "object", status |-> 503, code |-> "", message |-> "Service Unavailable"],
     [kind |-> "other", status |-> 0, code |-> "", message |-> "timeout"]}

\* the stages that run outside logWithTiming
StagePcs == {"checkRateLimit", "checkRateLimit_put"}

\* the pending await of an invocation rejects; nothing is written
Fault(s) ==
    /\ pc[s] \notin {"idle", "done"}
    /\ \E thrown \in Thrown :
          settle(s, IF pc[s] \in StagePcs
                    THEN fetchFromStage(Throw(thrown))
                    ELSE fetchFromRouter(Throw(thrown)))
    /\ UNCHANGED <<db, kv, now, request, local, waitUntil, issued, served>>

(***************************************************************************)
(* The steps of one invocation, by layer                                   *)
(***************************************************************************)
PipelineSteps(s) ==
    \/ checkRateLimit_get(s)
    \/ checkRateLimit_put(s)
    \/ router(s)

AuthSteps(s) ==
    \/ registerUser(s)
    \/ createUser(s)
    \/ createUser_select(s)
    \/ loginUser(s)
    \/ getProfile(s)

TaskSteps(s) ==
    \/ getAllTasks(s)
    \/ findAll_count(s)
    \/ findAll_select(s)
    \/ findAll_tags(s)
    \/ getAllTasks_put(s)
    \/ getTaskById(s)
    \/ findById(s)
    \/ toTaskResponse(s)
    \/ getTaskById_put(s)
    \/ task_create(s)
    \/ task_create_rowid(s)
    \/ attachTagsToTask(s)
    \/ task_update(s)
    \/ task_update_deleteTags(s)
    \/ task_remove(s)
    \/ invalidateUserCache(s)

TagSteps(s) ==
    \/ getUserTags(s)
    \/ tag_create(s)
    \/ tag_create_select(s)
    \/ tag_remove(s)

(***************************************************************************)
(* Initial states                                                          *)
(***************************************************************************)
\* a fresh deployment: empty tables, empty KV namespace, no request in flight
InitEmpty ==
    /\ users = EmptyTable
    /\ tasks = EmptyTable
    /\ tags = EmptyTable
    /\ task_tags = {}
    /\ sqlite_sequence = [users |-> 0, tasks |-> 0, tags |-> 0]
    /\ last_insert_rowid = 0
    /\ kv = EmptyTable
    /\ now = 0
    /\ pc = [s \in Slots |-> "idle"]
    /\ request = [s \in Slots |-> NoRequest]
    /\ local = [s \in Slots |-> InitLocal]
    /\ outcome = [s \in Slots |-> Pending]
    /\ waitUntil = {}
    /\ issued = {}
    /\ served = 0

(***************************************************************************)
(* SpecRate: one client address sends GET /health, one request at a time   *)
(***************************************************************************)
RateMaxNow == 120

HealthRequest(ip) == Req("GET", <<"health">>, NoQuery, <<ip>>, <<>>, NoBody)

RateRequestSet == {HealthRequest("203.0.113.7")}

NextRate ==
    \/ Tick(RateMaxNow)
    \/ \E req \in RateRequestSet : fetch(1, req, RateRequests)
    \/ PipelineSteps(1)

SpecRate == InitEmpty /\ [][NextRate]_vars

(***************************************************************************)
(* Seeded deployments                                                      *)
(***************************************************************************)
UserRow(id, email, name, password, salt) ==
    [id |-> id, email |-> email, name |-> name,
     password |-> hashPassword(password, salt), created_at |-> 0, updated_at |-> 0]

Alice == UserRow(1, "a@x.com", "Alice", "password123", "5a17")
Bob == UserRow(2, "b@x.com", "Bob", "hunter2hunter2", "5a18")

TaskRow(id, owner, title, status) ==
    [id |-> id, user_id |-> owner, title |-> title, description |-> NULL,
     status |-> status, priority |-> "medium", due_date |-> NULL,
     completed_at |-> IF status = "done" THEN <<0>> ELSE <<>>,
     ai_summary |-> NULL, ai_sentiment |-> NULL, created_at |-> 0, updated_at |-> 0]

TagRow(id, owner, name) ==
    [id |-> id, user_id |-> owner, name |-> name, color |-> "#6366f1", created_at |-> 0]

NoRequestInFlight ==
    /\ kv = EmptyTable
    /\ pc = [s \in Slots |-> "idle"]
    /\ request = [s \in Slots |-> NoRequest]
    /\ local = [s \in Slots |-> InitLocal]
    /\ outcome = [s \in Slots |-> Pending]
    /\ waitUntil = {}
    /\ served = 0

\* one account, whose owner has logged in
InitOneAccount ==
    /\ now = 0
    /\ users = (1 :> Alice)
    /\ tasks = EmptyTable
    /\ tags = EmptyTable
    /\ task_tags = {}
    /\ sqlite_sequence = [users |-> 1, tasks |-> 0, tags |-> 0]
    /\ last_insert_rowid = 0
    /\ issued = {issueToken(Alice)}
    /\ NoRequestInFlight

\* two accounts, both logged in; task 1 is Bob's, task 2 and tag 1 are
\* Alice's
InitTwoAccounts ==
    /\ now = 0
    /\ users = (1 :> Alice) @@ (2 :> Bob)
    /\ tasks = (1 :> TaskRow(1, 2, "Buy milk", "todo")) @@ (2 :> TaskRow(2, 1, "Write report", "todo"))
    /\ tags = (1 :> TagRow(1, 1, "work"))
    /\ task_tags = {<<2, 1>>}
    /\ sqlite_sequence = [users |-> 2, tasks |-> 2, tags |-> 1]
    /\ last_insert_rowid = 0
    /\ issued = {issueToken(Alice), issueToken(Bob)}
    /\ NoRequestInFlight

Bearer(token) == <<[scheme |-> "Bearer", token |-> <<token>>]>>

\* a request without CF-Connecting-IP and without a query string
Request(method, path, authorization, body) ==
    Req(method, path, NoQuery, <<>>, authorization, body)

(***************************************************************************)
(* SpecAuth: register, login and profile requests, two at a time           *)
(***************************************************************************)
RegisterBody(email, name, password) ==
    JsonBody([email |-> Str(email), name |-> Str(name), password |-> Str(password)])

LoginBody(email, password) ==
    JsonBody([email |-> Str(email), password |-> Str(password)])

AuthRequestSet ==
    {Request("POST", <<"auth", "register">>, <<>>, RegisterBody("b@x.com", "Bob", "hunter2hunter2")),
     Request("POST", <<"auth", "login">>, <<>>, LoginBody("A@X.com", "password123")),
     Request("POST", <<"auth", "login">>, <<>>, LoginBody("a@x.com", "wrongpass1")),
     Request("POST", <<"auth", "login">>, <<>>, LoginBody("c@x.com", "password123"))}
    \cup {Request("GET", <<"auth", "me">>, Bearer(token), NoBody) : token \in issued}

NextAuth ==
    \E s \in Slots :
        \/ \E req \in AuthRequestSet : fetch(s, req, AuthRequests)
        \/ PipelineSteps(s)
        \/ AuthSteps(s)

SpecAuth == InitOneAccount /\ [][NextAuth]_vars

(***************************************************************************)
(* SpecPipe: every kind of request through the whole pipeline, one at a    *)
(* time, with bindings that may fail                                       *)
(***************************************************************************)
AliceToken == [format |-> "jws", key |-> JWT_SECRET, exp |-> TokenLifetime,
               payload |-> JwtPayload(1, "a@x.com", "Alice")]

\* Authorization headers that must not be accepted
BadAuthorizations ==
    {<<>>,
     <<[scheme |-> "Basic", token |-> <<AliceToken>>]>>,
     <<[scheme |-> "Bearer", token |-> <<>>]>>,
     Bearer([AliceToken EXCEPT !.format = "garbage"]),
     Bearer([AliceToken EXCEPT !.key = "another secret"]),
     Bearer([AliceToken EXCEPT !.exp = 0]),
     Bearer([AliceToken EXCEPT !.payload.typeof.userId = "string"]),
     Bearer([AliceToken EXCEPT !.payload.typeof.email = "undefined"]),
     Bearer([AliceToken EXCEPT !.payload.typeof.name = "undefined"])}

ProtectedRequests(authorization) ==
    {Request("GET", <<"auth", "me">>, authorization, NoBody),
     Request("GET", <<"tasks">>, authorization, NoBody),
     Request("POST", <<"tasks">>, authorization,
             JsonBody([title |-> Str("Write report"), tag_ids |-> Arr(<<Num(1)>>)])),
     Request("GET", <<"tasks", "2">>, authorization, NoBody),
     Request("GET", <<"tasks", "999">>, authorization, NoBody),
     Request("PATCH", <<"tasks", "2">>, authorization,
             JsonBody([status |-> Str("done"), tag_ids |-> Arr(<<Num(1)>>)])),
     Request("DELETE", <<"tasks", "2">>, authorization, NoBody),
     Request("GET", <<"tags">>, authorization, NoBody),
     Request("POST", <<"tags">>, authorization, JsonBody([name |-> Str("Work")])),
     Request("POST", <<"tags">>, authorization, JsonBody([name |-> Str("home")])),
     Request("DELETE", <<"tags", "1">>, authorization, NoBody)}

PipeRequestSet ==
    {Request("GET", <<"health">>, <<>>, NoBody),
     Request("OPTIONS", <<"tasks">>, <<>>, NoBody),
     Request("GET", <<"nowhere">>, <<>>, NoBody),
     Req("GET", <<"tasks">>, [search |-> "1+union+select+1"], <<>>, Bearer(AliceToken), NoBody),
     Req("GET", <<"tasks">>, [status |-> "done"], <<>>, Bearer(AliceToken), NoBody),
     Request("GET", <<"tasks", "abc">>, Bearer(AliceToken), NoBody),
     Request("POST", <<"tasks">>, Bearer(AliceToken), NoBody),
     Request("POST", <<"tasks">>, Bearer(AliceToken), JsonBody([title |-> Str("   ")])),
     Request("POST", <<"auth", "register">>, <<>>, RegisterBody("c@x.com", "Carol", "password123")),
     Request("POST", <<"auth", "register">>, <<>>, RegisterBody("a@x.com", "Alice", "password123")),
     Request("POST", <<"auth", "login">>, <<>>, LoginBody("a@x.com", "password123")),
     Request("POST", <<"auth", "login">>, <<>>, LoginBody("a@x.com", "wrongpass1")),
     Request("GET", <<"tasks">>, <<>>, NoBody),
     Request("GET", <<"auth", "me">>, Bearer([AliceToken EXCEPT !.exp = 0]), NoBody)}
    \cup ProtectedRequests(Bearer(AliceToken))

NextPipe ==
    \/ \E req \in PipeRequestSet : fetch(1, req, PipeRequests)
    \/ PipelineSteps(1)
    \/ AuthSteps(1)
    \/ TaskSteps(1)
    \/ TagSteps(1)
    \/ Fault(1)

SpecPipe == InitTwoAccounts /\ [][NextPipe]_vars

(***************************************************************************)
(* SpecGuard: the protected routes with every kind of Authorization        *)
(* header, one request at a time                                           *)
(***************************************************************************)
GuardRequestSet ==
    UNION {ProtectedRequests(authorization) :
              authorization \in BadAuthorizations \cup {Bearer(AliceToken)}}

NextGuard ==
    \/ \E req \in GuardRequestSet : fetch(1, req, GuardRequests)
    \/ PipelineSteps(1)
    \/ getProfile(1)
    \/ TaskSteps(1)
    \/ TagSteps(1)

SpecGuard == InitTwoAccounts /\ [][NextGuard]_vars

(***************************************************************************)
(* SpecTasks: Alice and Bob work on tasks, two requests at a time          *)
(***************************************************************************)
BobToken == [format |-> "jws", key |-> JWT_SECRET, exp |-> TokenLifetime,
             payload |-> JwtPayload(2, "b@x.com", "Bob")]

TaskRequestSet ==
    {Request("POST", <<"tasks">>, Bearer(AliceToken),
             JsonBody([title |-> Str("Write report"), tag_ids |-> Arr(<<Num(1)>>)])),
     Request("GET", <<"tasks">>, Bearer(AliceToken), NoBody),
     Request("GET", <<"tasks", "1">>, Bearer(AliceToken), NoBody),
     Request("PATCH", <<"tasks", "1">>, Bearer(AliceToken),
             JsonBody([title |-> Str("hacked"), tag_ids |-> Arr(<<Num(1)>>)])),
     Request("DELETE", <<"tasks", "1">>, Bearer(AliceToken), NoBody),
     Request("POST", <<"tasks">>, Bearer(BobToken),
             JsonBody([title |-> Str("Buy milk"), status |-> Str("done")])),
     Request("GET", <<"tasks">>, Bearer(BobToken), NoBody),
     Request("GET", <<"tasks", "1">>, Bearer(BobToken), NoBody),
     Request("PATCH", <<"tasks", "1">>, Bearer(BobToken),
             JsonBody([status |-> Str("done"), tag_ids |-> Arr(<<>>)])),
     Request("DELETE", <<"tasks", "1">>, Bearer(BobToken), NoBody)}

NextTasks ==
    \E s \in Slots :
        \/ \E req \in TaskRequestSet : fetch(s, req, TaskRequests)
        \/ PipelineSteps(s)
        \/ TaskSteps(s)

SpecTasks == InitTwoAccounts /\ [][NextTasks]_vars

(***************************************************************************)
(* SpecStale: Bob reads and renames his task 1, two requests at a time     *)
(***************************************************************************)
StaleRequestSet ==
    {Request("GET", <<"tasks", "1">>, Bearer(BobToken), NoBody),
     Request("PATCH", <<"tasks", "1">>, Bearer(BobToken), JsonBody([title |-> Str("Buy oat milk")]))}

NextStale ==
    \E s \in Slots :
        \/ \E req \in StaleRequestSet : fetch(s, req, StaleRequests)
        \/ PipelineSteps(s)
        \/ getTaskById(s)
        \/ findById(s)
        \/ toTaskResponse(s)
        \/ getTaskById_put(s)
        \/ task_update(s)
        \/ invalidateUserCache(s)

SpecStale == InitTwoAccounts /\ [][NextStale]_vars

(***************************************************************************)
(* SpecUpdate: Alice reads and updates her task 2, one request at a time,  *)
(* while time passes                                                       *)
(***************************************************************************)
\* task 2 has a description and a due date
InitUpdate ==
    /\ now = 0
    /\ users = (1 :> Alice) @@ (2 :> Bob)
    /\ tasks = (1 :> TaskRow(1, 2, "Buy milk", "todo"))
               @@ (2 :> [TaskRow(2, 1, "Write report", "todo") EXCEPT
                           !.description = "Quarterly numbers",
                           !.due_date = "2026-12-31"])
    /\ tags = (1 :> TagRow(1, 1, "work"))
    /\ task_tags = {<<2, 1>>}
    /\ sqlite_sequence = [users |-> 2, tasks |-> 2, tags |-> 1]
    /\ last_insert_rowid = 0
    /\ issued = {issueToken(Alice), issueToken(Bob)}
    /\ NoRequestInFlight

UpdateMaxNow == 40

UpdateRequestSet ==
    {Request("GET", <<"tasks", "2">>, Bearer(AliceToken), NoBody),
     Request("PATCH", <<"tasks", "2">>, Bearer(AliceToken), JsonBody([status |-> Str("done")])),
     Request("PATCH", <<"tasks", "2">>, Bearer(AliceToken), JsonBody([status |-> Str("in_progress")])),
     Request("PATCH", <<"tasks", "2">>, Bearer(AliceToken), JsonBody([title |-> Str("Updated title")])),
     Request("PATCH", <<"tasks", "2">>, Bearer(AliceToken), JsonBody([priority |-> Str("high")])),
     Request("PATCH", <<"tasks", "2">>, Bearer(AliceToken), JsonBody([tag_ids |-> Arr(<<>>)]))}

NextUpdate ==
    \/ Tick(UpdateMaxNow)
    \/ \E req \in UpdateRequestSet : fetch(1, req, UpdateRequests)
    \/ PipelineSteps(1)
    \/ getTaskById(1)
    \/ findById(1)
    \/ toTaskResponse(1)
    \/ getTaskById_put(1)
    \/ task_update(1)
    \/ task_update_deleteTags(1)
    \/ invalidateUserCache(1)

SpecUpdate == InitUpdate /\ [][NextUpdate]_vars

(***************************************************************************)
(* SpecDelete: Alice deletes her task 2 and her tag 1 and creates tasks    *)
(* and tags, Bob tries to delete her task; one request at a time, the      *)
(* slots keep the last responses                                           *)
(***************************************************************************)
DeleteRequestSet ==
    {Request("DELETE", <<"tasks", "2">>, Bearer(AliceToken), NoBody),
     Request("DELETE", <<"tags", "1">>, Bearer(AliceToken), NoBody),
     Request("DELETE", <<"tasks", "2">>, Bearer(BobToken), NoBody),
     Request("POST", <<"tasks">>, Bearer(AliceToken), JsonBody([title |-> Str("Write report")])),
     Request("POST", <<"tags">>, Bearer(AliceToken), JsonBody([name |-> Str("Work")]))}

NextDelete ==
    \E s \in Slots :
        \/ /\ \A t \in Slots : pc[t] \in {"idle", "done"}
           /\ \E req \in DeleteRequestSet : fetch(s, req, DeleteRequests)
        \/ PipelineSteps(s)
        \/ task_remove(s)
        \/ tag_remove(s)
        \/ task_create(s)
        \/ task_create_rowid(s)
        \/ findById(s)
        \/ toTaskResponse(s)
        \/ invalidateUserCache(s)
        \/ tag_create(s)
        \/ tag_create_select(s)

SpecDelete == InitTwoAccounts /\ [][NextDelete]_vars

(***************************************************************************)
(* SpecTags: POST /tags of Alice and Bob, in flight together; Alice owns   *)
(* the tag "work" from the start                                           *)
(***************************************************************************)
TagRequestSet ==
    {Request("POST", <<"tags">>, Bearer(AliceToken), JsonBody([name |-> Str("Home")])),
     Request("POST", <<"tags">>, Bearer(AliceToken), JsonBody([name |-> Str(" home ")])),
     Request("POST", <<"tags">>, Bearer(AliceToken), JsonBody([name |-> Str("Work")])),
     Request("POST", <<"tags">>, Bearer(BobToken), JsonBody([name |-> Str("home")]))}

NextTags ==
    \E s \in Slots :
        \/ \E req \in TagRequestSet : fetch(s, req, TagRequests)
        \/ PipelineSteps(s)
        \/ tag_create(s)
        \/ tag_create_select(s)

SpecTags == InitTwoAccounts /\ [][NextTags]_vars

(***************************************************************************)
(* SpecRegister: registrations in flight together; a@x.com is taken        *)
(***************************************************************************)
RegisterRequestSet ==
    {Request("POST", <<"auth", "register">>, <<>>, RegisterBody("b@x.com", "Bob", "hunter2hunter2")),
     Request("POST", <<"auth", "register">>, <<>>, RegisterBody("B@X.com", "Bob", "hunter2hunter2")),
     Request("POST", <<"auth", "register">>, <<>>, RegisterBody("A@X.com", " Alice ", "password123"))}

NextRegister ==
    \E s \in Slots :
        \/ \E req \in RegisterRequestSet : fetch(s, req, RegisterRequests)
        \/ PipelineSteps(s)
        \/ registerUser(s)
        \/ createUser(s)
        \/ createUser_select(s)

SpecRegister == InitOneAccount /\ [][NextRegister]_vars

(***************************************************************************)
(* SpecWaf: URLs as a client writes them on the request line, one request  *)
(* at a time                                                               *)
(***************************************************************************)
WafRequestSet ==
    {Request("GET", <<"tasks", "..", "..", "etc", "passwd">>, <<>>, NoBody),
     Request("GET", <<"..", "..", "etc", "passwd">>, Bearer(AliceToken), NoBody),
     Request("GET", <<"..%2f..%2fetc%2fpasswd">>, <<>>, NoBody),
     Req("GET", <<"tasks">>, [q |-> "<script>alert(1)</script>"], <<>>, Bearer(AliceToken), NoBody),
     Req("GET", <<"tasks">>, [file |-> "../../etc/passwd"], <<>>, Bearer(AliceToken), NoBody),
     Req("GET", <<"tasks">>, [search |-> "1+union+select+1"], <<>>, Bearer(AliceToken), NoBody),
     Request("GET", <<"tasks">>, Bearer(AliceToken), NoBody)}

NextWaf ==
    \/ \E req \in WafRequestSet : fetch(1, req, WafRequests)
    \/ PipelineSteps(1)
    \/ getAllTasks(1)
    \/ findAll_count(1)
    \/ findAll_select(1)
    \/ findAll_tags(1)
    \/ getAllTasks_put(1)

SpecWaf == InitTwoAccounts /\ [][NextWaf]_vars

(***************************************************************************)
(* SpecPreflight: one client whose counter stands at 59 or 60 sends        *)
(* OPTIONS and GET requests while the clock advances                       *)
(***************************************************************************)
PreflightClient == "203.0.113.7"

InitNearLimit ==
    /\ users = EmptyTable
    /\ tasks = EmptyTable
    /\ tags = EmptyTable
    /\ task_tags = {}
    /\ sqlite_sequence = [users |-> 0, tasks |-> 0, tags |-> 0]
    /\ last_insert_rowid = 0
    /\ \E count \in {RATE_LIMIT_MAX - 1, RATE_LIMIT_MAX} :
          kv = (<<"rl", PreflightClient>> :>
                    [value |-> count, expiration |-> RATE_LIMIT_WINDOW])
    /\ now = 0
    /\ pc = [s \in Slots |-> "idle"]
    /\ request = [s \in Slots |-> NoRequest]
    /\ local = [s \in Slots |-> InitLocal]
    /\ outcome = [s \in Slots |-> Pending]
    /\ waitUntil = {}
    /\ issued = {}
    /\ served = 0

PreflightRequestSet ==
    {Req("OPTIONS", <<"tasks">>, NoQuery, <<PreflightClient>>, <<>>, NoBody),
     Req("OPTIONS", <<"nowhere">>, NoQuery, <<PreflightClient>>, <<>>, NoBody),
     Req("OPTIONS", <<"tasks">>, [search |-> "xp_cmdshell"], <<PreflightClient>>, <<>>, NoBody),
     HealthRequest(PreflightClient)}

NextPreflight ==
    \/ Tick(PreflightMaxNow)
    \/ \E req \in PreflightRequestSet : fetch(1, req, PreflightRequests)
    \/ PipelineSteps(1)

SpecPreflight == InitNearLimit /\ [][NextPreflight]_vars

(***************************************************************************)
(* SpecList: Alice, who owns between no and ListTasks tasks, pages through *)
(* GET /tasks, one request at a time                                       *)
(***************************************************************************)
InitList ==
    /\ now = 0
    /\ users = (1 :> Alice)
    /\ \E n \in 0..ListTasks :
          /\ tasks = [id \in 1..n |-> TaskRow(id, 1, "Write report", "todo")]
          /\ sqlite_sequence = [users |-> 1, tasks |-> n, tags |-> 0]
    /\ tags = EmptyTable
    /\ task_tags = {}
    /\ last_insert_rowid = 0
    /\ issued = {issueToken(Alice)}
    /\ NoRequestInFlight

ListRequestSet ==
    {Req("GET", <<"tasks">>, [page |-> page, limit |-> limit], <<>>, Bearer(AliceToken), NoBody) :
        page \in {"1", "2", "3"}, limit \in {"1", "2", "100", "101"}}
    \cup {Request("GET", <<"tasks">>, Bearer(AliceToken), NoBody),
          Req("GET", <<"tasks">>, [status |-> "done"], <<>>, Bearer(AliceToken), NoBody)}

NextList ==
    \/ \E req \in ListRequestSet : fetch(1, req, ListRequests)
    \/ PipelineSteps(1)
    \/ getAllTasks(1)
    \/ findAll_count(1)
    \/ findAll_select(1)
    \/ findAll_tags(1)
    \/ getAllTasks_put(1)

SpecList == InitList /\ [][NextList]_vars

(***************************************************************************)
(* SpecEnrich: the service level, where createTask was called with an      *)
(* ExecutionContext and has handed the enrichment of Alice's task 2 to     *)
(* waitUntil; Alice reads the task while the run goes on                   *)
(***************************************************************************)
InitEnrich ==
    /\ now = 0
    /\ users = (1 :> Alice) @@ (2 :> Bob)
    /\ tasks = (1 :> TaskRow(1, 2, "Buy milk", "todo")) @@ (2 :> TaskRow(2, 1, "Write report", "todo"))
    /\ tags = (1 :> TagRow(1, 1, "work"))
    /\ task_tags = {<<2, 1>>}
    /\ sqlite_sequence = [users |-> 2, tasks |-> 2, tags |-> 1]
    /\ last_insert_rowid = 2
    /\ issued = {issueToken(Alice), issueToken(Bob)}
    /\ kv = EmptyTable
    /\ pc = [s \in Slots |-> "idle"]
    /\ request = [s \in Slots |-> NoRequest]
    /\ local = [s \in Slots |-> InitLocal]
    /\ outcome = [s \in Slots |-> Pending]
    /\ waitUntil = {Enrichment(TaskRow(2, 1, "Write report", "todo"))}
    /\ served = 0

EnrichRequestSet ==
    {Request("GET", <<"tasks", "2">>, Bearer(AliceToken), NoBody)}

NextEnrich ==
    \/ EnrichmentSteps
    \/ \E s \in Slots :
          \/ \E req \in EnrichRequestSet : fetch(s, req, EnrichRequests)
          \/ PipelineSteps(s)
          \/ getTaskById(s)
          \/ findById(s)
          \/ toTaskResponse(s)
          \/ getTaskById_put(s)

SpecEnrich == InitEnrich /\ [][NextEnrich]_vars

\* the same with one request at a time beside the run
NextEnrichOne ==
    \/ EnrichmentSteps
    \/ \E req \in EnrichRequestSet : fetch(1, req, EnrichRequests)
    \/ PipelineSteps(1)
    \/ getTaskById(1)
    \/ findById(1)
    \/ toTaskResponse(1)
    \/ getTaskById_put(1)

SpecEnrichOne == InitEnrich /\ [][NextEnrichOne]_vars

(***************************************************************************)
(* Claims                                                                  *)
(***************************************************************************)

\* C1: whatever the request and whichever await of the pipeline rejects,
\* an invocation of fetch that has settled has settled with a Response; it
\* never settles with a thrown value.
C1_AlwaysOneResponse ==
    \A s \in Slots :
        pc[s] = "done" =>
            /\ outcome[s].tag = "return"
            /\ outcome[s].thrown = NoThrown
            /\ outcome[s].response.status \in 200..599

\* a binding rejected with a plain object and fetch answered all the same
C1_Witness ==
    /\ pc[1] = "done"
    /\ outcome[1].tag = "return"
    /\ outcome[1].response.status = 500
    /\ outcome[1].response.message = "Service Unavailable"

\* C4: for requests of one client address inside one 60-second window that
\* starts with no counter for the address, each of the first 60 requests is
\* admitted by the rate limiter and the 61st is answered 429 with a
\* positive Retry-After header of 60.
C4_SixtyFirstRejected ==
    \A s \in Slots :
        (pc[s] = "done" /\ now < 60) =>
            /\ served <= 60 => outcome[s].response.status = 200
            /\ served = 61 =>
                  /\ outcome[s].response.status = 429
                  /\ "Retry-After" \in outcome[s].response.headers
                  /\ outcome[s].response.retryAfter = 60
                  /\ outcome[s].response.retryAfter > 0

C4_Witness ==
    /\ pc[1] = "done"
    /\ served = 61
    /\ now < 60
    /\ outcome[1].response.status = 429

\* C6: every response fetch returns carries the security headers
\* X-Content-Type-Options, X-Frame-Options, Strict-Transport-Security,
\* Content-Security-Policy, Referrer-Policy and Permissions-Policy.
C6_SecurityHeadersOnEveryResponse ==
    \A s \in Slots :
        (pc[s] = "done" /\ outcome[s].tag = "return") =>
            {"X-Content-Type-Options", "X-Frame-Options", "Strict-Transport-Security",
             "Content-Security-Policy", "Referrer-Policy", "Permissions-Policy"}
                \subseteq outcome[s].response.headers

\* C7: when the router handles a request for a protected route whose
\* Authorization header is missing, is not a Bearer header, has an empty
\* token, has a token that fails verification or a payload without a numeric
\* userId, a string email or a string name, that step ends the request with
\* a 401, no service step follows, and no step of such a request changes a
\* table or a task cache entry.
C7_UnauthorizedRejected ==
    [][\A s \in Slots :
          LET req      == request'[s]
              header   == req.authorization
              rejected ==
                  \/ header = <<>>
                  \/ header[1].scheme # "Bearer"
                  \/ header[1].token = <<>>
                  \/ ~verifyToken(header[1].token[1]).ok
                  \/ header[1].token[1].payload.typeof.userId # "number"
                  \/ header[1].token[1].payload.typeof.email # "string"
                  \/ header[1].token[1].payload.typeof.name # "string"
              taskCache(store) == [k \in {j \in DOMAIN store : j[1] # "rl"} |-> store[k]]
          IN  (pc'[s] # pc[s] /\ requiresAuth(req) /\ rejected) =>
                  /\ <<users, tasks, tags, task_tags>>' = <<users, tasks, tags, task_tags>>
                  /\ taskCache(kv') = taskCache(kv)
                  /\ pc[s] \in {"idle", "done", "checkRateLimit", "checkRateLimit_put", "router"}
                  /\ pc[s] = "router" =>
                        /\ pc'[s] = "done"
                        /\ outcome'[s].response.status = 401
                        /\ outcome'[s].response.code = "UNAUTHORIZED"
    ]_vars

\* the router has turned away a validly signed token whose userId is not a
\* number, and nothing was written
C7_Witness ==
    /\ pc[1] = "done"
    /\ requiresAuth(request[1])
    /\ outcome[1].response.status = 401
    /\ outcome[1].response.message = "Token payload is malformed"
    /\ tasks = (1 :> TaskRow(1, 2, "Buy milk", "todo")) @@ (2 :> TaskRow(2, 1, "Write report", "todo"))

\* C8: no response to POST /auth/register, POST /auth/login or GET /auth/me
\* carries the stored password hash of any account, in any string of its
\* body.
C8_NoPasswordHashInResponse ==
    \A s \in Slots :
        (pc[s] = "done" /\ route(request[s]) \in {"register", "login", "me"}) =>
            LET body   == outcome[s].response
                hashes == {users[id].password : id \in DOMAIN users}
                numeric == {"id", "created_at", "updated_at"}
            IN  /\ body.message \notin hashes
                /\ body.data.text \notin hashes
                /\ \A i \in 1..Len(body.data.user) :
                      \A f \in DOMAIN body.data.user[i] \ numeric :
                          body.data.user[i][f] \notin hashes
                /\ \A i \in 1..Len(body.data.token) :
                      \A f \in {"email", "name"} :
                          body.data.token[i].payload[f] \notin hashes

\* a registration has been answered 201 with the new account
C8_Witness ==
    \E s \in Slots :
        /\ pc[s] = "done"
        /\ route(request[s]) = "register"
        /\ outcome[s].response.status = 201
        /\ outcome[s].response.data.user # <<>>
        /\ outcome[s].response.data.user[1].id \in DOMAIN users
        /\ users[outcome[s].response.data.user[1].id].password # ""

\* C9: a login for an email without an account and a login with a wrong
\* password for an existing account are both answered 401 with equal
\* bodies, and verifyPassword has run in both: against the dummy hash in the
\* first, against the stored hash in the second.
C9_LoginFailuresIndistinguishable ==
    \A s, t \in Slots :
        LET ran(x) == /\ pc[x] = "done"
                      /\ route(request[x]) = "login"
                      /\ local[x].input # <<>>
            body(x) == [success |-> outcome[x].response.success,
                        data    |-> outcome[x].response.data,
                        code    |-> outcome[x].response.code,
                        message |-> outcome[x].response.message]
        IN  (/\ ran(s) /\ ran(t)
             /\ usersByEmail(local[s].input[1].email) = {}
             /\ \E id \in usersByEmail(local[t].input[1].email) :
                    ~verifyPassword(local[t].input[1].password, users[id].password))
            => /\ outcome[s].response.status = 401
               /\ outcome[t].response.status = 401
               /\ body(s) = body(t)
               /\ local[s].verified = <<DUMMY_HASH>>
               /\ \E id \in usersByEmail(local[t].input[1].email) :
                      local[t].verified = <<users[id].password>>

\* both kinds of failed login have been answered
C9_Witness ==
    /\ pc[1] = "done" /\ pc[2] = "done"
    /\ route(request[1]) = "login" /\ route(request[2]) = "login"
    /\ local[1].input # <<>> /\ local[2].input # <<>>
    /\ local[1].input[1].email = "c@x.com"
    /\ local[2].input[1].email = "a@x.com"
    /\ local[2].input[1].password = "wrongpass1"
    /\ outcome[1].response.status = 401
    /\ outcome[2].response.status = 401

C3_ReadAfterUpdate ==
    \A p, r \in Slots :
        (/\ pc[p] = "done" /\ route(request[p]) = "updateTask"
         /\ outcome[p].response.status = 200
         /\ pc[r] = "done" /\ route(request[r]) = "getTaskById"
         /\ outcome[r].response.status = 200
         /\ local[r].id = local[p].id
         /\ local[r].auth = local[p].auth
         /\ local[r].seq > outcome[p].at)
        => outcome[r].response.data.task[1].title = local[p].input[1].title[1]

\* C5: a POST /tasks with a valid token and a valid body is answered 201
\* with the one task it stored, and one enrichment run for that task has
\* been handed to waitUntil when the response is there.
C5_CreateStoresAnswersAndEnriches ==
    \A s \in Slots :
        (pc[s] = "done" /\ route(request[s]) = "createTask" /\ local[s].input # <<>>) =>
            /\ outcome[s].response.status = 201
            /\ outcome[s].response.data.task # <<>>
            /\ outcome[s].response.data.task[1].id \in DOMAIN tasks
            /\ Cardinality({e \in waitUntil :
                              e.taskId = outcome[s].response.data.task[1].id}) = 1

\* C10: every stored task has completed_at set exactly when its status is
\* done.
C10_CompletedAtIffDone ==
    \A id \in DOMAIN tasks : (tasks[id].completed_at # <<>>) <=> (tasks[id].status = "done")

\* C11: a PATCH with a status, at the step that runs its UPDATE: when the
\* stored status was not done and the new one is done, completed_at is set;
\* when the stored status was done and the new one is not, completed_at is
\* cleared; when both are done, completed_at keeps its value.
C11_StatusTransitionSetsCompletedAt ==
    [][\A s \in Slots :
          (/\ pc[s] = "update" /\ pc'[s] # "update"
           /\ local[s].input[1].status # <<>>
           /\ local[s].id \in DOMAIN tasks) =>
              LET before == tasks[local[s].id]
                  after  == tasks'[local[s].id]
                  to     == local[s].input[1].status[1]
              IN  /\ after.status = to
                  /\ (before.status # "done" /\ to = "done") => after.completed_at # <<>>
                  /\ (before.status = "done" /\ to # "done") => after.completed_at = <<>>
                  /\ (before.status = "done" /\ to = "done") =>
                        after.completed_at = before.completed_at
    ]_vars

\* a PATCH to done has been answered for a task that was completed earlier:
\* the row was rewritten and completed_at still has the older time
C11_Witness ==
    /\ pc[1] = "done"
    /\ route(request[1]) = "updateTask"
    /\ local[1].input # <<>>
    /\ local[1].input[1].status = <<"done">>
    /\ outcome[1].response.status = 200
    /\ tasks[2].status = "done"
    /\ tasks[2].completed_at # <<>>
    /\ tasks[2].completed_at[1] < tasks[2].updated_at
\* C12: no step of a PATCH /tasks/:id changes a stored field of the task
\* that the request body does not name: title, description, status,
\* priority and due_date keep their values, and the tag links of the task
\* stay as they were unless the body names tag_ids.
C12_PatchChangesOnlyNamedFields ==
    [][\A s \in Slots :
          (/\ route(request[s]) = "updateTask"
           /\ pc[s] \notin {"idle", "done"}
           /\ local[s].id \in DOMAIN tasks
           /\ local[s].id \in DOMAIN tasks') =>
              LET named  == DOMAIN request[s].body.value
                  before == tasks[local[s].id]
                  after  == tasks'[local[s].id]
              IN  /\ \A f \in {"title", "description", "status", "priority", "due_date"} \ named :
                        after[f] = before[f]
                  /\ "tag_ids" \notin named =>
                        {l \in task_tags' : l[1] = local[s].id}
                            = {l \in task_tags : l[1] = local[s].id}
    ]_vars

\* C13: when a DELETE of a task or of a tag has been answered 200, the row
\* is gone for good, and every DELETE of the same id by the same user that
\* starts afterwards is answered 404.
C13_DeleteTwiceIsNotFound ==
    \A p \in Slots :
        (/\ pc[p] = "done"
         /\ route(request[p]) \in {"deleteTask", "deleteTag"}
         /\ outcome[p].response.status = 200) =>
            /\ route(request[p]) = "deleteTask" => local[p].id \notin DOMAIN tasks
            /\ route(request[p]) = "deleteTag" => local[p].id \notin DOMAIN tags
            /\ \A r \in Slots :
                  (/\ pc[r] = "done"
                   /\ route(request[r]) = route(request[p])
                   /\ local[r].auth = local[p].auth
                   /\ local[r].id = local[p].id
                   /\ local[r].seq > outcome[p].at) =>
                      outcome[r].response.status = 404

\* a tag was deleted, a tag of the same name was created again, and a second
\* DELETE of the old id was answered 404
C13_Witness ==
    \E p, r \in Slots :
        /\ pc[p] = "done" /\ pc[r] = "done"
        /\ route(request[p]) = "deleteTag" /\ route(request[r]) = "deleteTag"
        /\ outcome[p].response.status = 200
        /\ outcome[r].response.status = 404
        /\ local[r].seq > outcome[p].at
        /\ \E t \in DOMAIN tags : tags[t].name = "work" /\ tags[t].user_id = 1

\* C14: a user never owns two tags of one name; of two POST /tags of one user
\* with the same normalised name, racing or not, each is answered 201 or 409
\* and never both 201, and the name is stored once; both are answered 409
\* when the user owned the name from the start, and exactly one is answered
\* 201 when the name was free and these two are the only requests made.
C14_OneTagPerName ==
    /\ \A a, b \in DOMAIN tags :
          (tags[a].user_id = tags[b].user_id /\ tags[a].name = tags[b].name) => a = b
    /\ \A p, r \in Slots :
          (/\ p # r
           /\ pc[p] = "done" /\ pc[r] = "done"
           /\ route(request[p]) = "createTag" /\ route(request[r]) = "createTag"
           /\ local[p].input # <<>> /\ local[r].input # <<>>
           /\ local[p].auth = local[r].auth
           /\ local[p].input[1].name = local[r].input[1].name) =>
              LET statuses == {outcome[p].response.status, outcome[r].response.status}
                  owned == \E t \in DOMAIN tags :
                              /\ t <= 1
                              /\ tags[t].user_id = userId(p)
                              /\ tags[t].name = local[p].input[1].name
              IN  /\ statuses \subseteq {201, 409}
                  /\ statuses # {201}
                  /\ owned => statuses = {409}
                  /\ (~owned /\ served = 2) => statuses = {201, 409}
                  /\ Cardinality({t \in DOMAIN tags :
                        /\ tags[t].user_id = userId(p)
                        /\ tags[t].name = local[p].input[1].name}) = 1

\* "Home" and " home " of Alice raced: the one that came first got the 409,
\* the other one stored the tag and got the 201
C14_Witness ==
    \E p, r \in Slots :
        /\ pc[p] = "done" /\ pc[r] = "done"
        /\ request[p].body.value.name.v = "Home"
        /\ request[r].body.value.name.v = " home "
        /\ userId(p) = 1 /\ userId(r) = 1
        /\ local[p].seq < local[r].seq
        /\ outcome[p].response.status = 409
        /\ outcome[r].response.status = 201
        /\ \E t \in DOMAIN tags : tags[t].user_id = 1 /\ tags[t].name = "home"

\* C15: there is at most one account per email; a registration is answered
\* 201 or 409, and 409 when the email, compared without case, belongs to an
\* account that exists already; of two registrations with the same email in
\* flight together, one is answered 201 and the other 409.
C15_DuplicateRegistrationConflicts ==
    /\ \A a, b \in DOMAIN users : users[a].email = users[b].email => a = b
    /\ \A p \in Slots :
          (pc[p] = "done" /\ route(request[p]) = "register" /\ local[p].input # <<>>) =>
              /\ outcome[p].response.status \in {201, 409}
              /\ local[p].input[1].email = Alice.email => outcome[p].response.status = 409
    /\ \A p, r \in Slots :
          (/\ p # r
           /\ pc[p] = "done" /\ pc[r] = "done"
           /\ route(request[p]) = "register" /\ route(request[r]) = "register"
           /\ local[p].input # <<>> /\ local[r].input # <<>>
           /\ local[p].input[1].email = local[r].input[1].email
           /\ local[p].input[1].email # Alice.email
           /\ served = 2) =>
              {outcome[p].response.status, outcome[r].response.status} = {201, 409}

\* the attacks of the threat-filter claim, as the client sends them
TraversalPath(req) ==
    \E i \in 1..(Len(req.path) - 3) :
        SubSeq(req.path, i, i + 3) = <<"..", "..", "etc", "passwd">>

ScriptQuery(req) ==
    \E k \in DOMAIN req.query : req.query[k] = "<script>alert(1)</script>"

\* C16: a request whose path, as sent, contains ../../etc/passwd, or whose
\* query string contains <script>, is settled by fetch itself with the 403
\* Forbidden of the threat filter: it is never found suspended at a later
\* stage, so no counter is read or written and no handler runs.
C16_AttackRejectedBeforeHandlers ==
    \A s \in Slots :
        (pc[s] # "idle" /\ (TraversalPath(request[s]) \/ ScriptQuery(request[s]))) =>
            /\ pc[s] = "done"
            /\ outcome[s].response.status = 403
            /\ outcome[s].response.code = "FORBIDDEN"
            /\ outcome[s].response.message = "Forbidden"

\* C17: the step that receives an OPTIONS request which the threat filter
\* lets through settles it with 204, no body and the CORS headers, and
\* leaves the KV namespace, hence the client's counter and its expiration,
\* as it was, whatever the counter says.
C17_PreflightBypassesRateLimit ==
    [][\A s \in Slots :
          (/\ served' = served + 1
           /\ local'[s].seq = served'
           /\ request'[s].method = "OPTIONS"
           /\ detectMaliciousInput(request'[s]) = <<>>) =>
              /\ pc'[s] = "done"
              /\ outcome'[s].response.status = 204
              /\ ~outcome'[s].response.hasBody
              /\ CORS_HEADERS \subseteq outcome'[s].response.headers
              /\ kv' = kv]_vars

\* an OPTIONS request was answered 204 while the client's counter stood at 60
C17_Witness ==
    /\ pc[1] = "done"
    /\ request[1].method = "OPTIONS"
    /\ outcome[1].response.status = 204
    /\ <<"rl", PreflightClient>> \in DOMAIN kv
    /\ kv[<<"rl", PreflightClient>>].value = RATE_LIMIT_MAX
    /\ kv[<<"rl", PreflightClient>>].expiration = RATE_LIMIT_WINDOW

\* C18: in every 200 of GET /tasks, meta.page is at least 1, meta.limit is
\* between 1 and 100, and meta.hasMore is true exactly when
\* meta.page * meta.limit < meta.total.
C18_HasMoreIffPageTimesLimitBelowTotal ==
    \A s \in Slots :
        (/\ pc[s] = "done"
         /\ route(request[s]) = "getAllTasks"
         /\ outcome[s].response.status = 200) =>
            LET meta == outcome[s].response.data.meta[1] IN
            /\ meta.page >= 1
            /\ meta.limit \in 1..100
            /\ meta.total >= 0
            /\ meta.hasMore <=> (meta.page * meta.limit < meta.total)

\* the second page of two when the user owns four tasks, or the like: the
\* last page is full and there is none after it
C18_Witness ==
    /\ pc[1] = "done"
    /\ route(request[1]) = "getAllTasks"
    /\ outcome[1].response.status = 200
    /\ LET meta == outcome[1].response.data.meta[1] IN
       /\ meta.total > 0
       /\ meta.page * meta.limit = meta.total
       /\ ~meta.hasMore
       /\ Len(outcome[1].response.data.tasks) = meta.limit

EnrichmentFailed(run) ==
    \/ run.binding = "undefined"
    \/ run.threw \in {"AI.run", "JSON.parse", "updateAiFields"}
    \/ /\ run.result # <<>>
       /\ LET match == matchJson(stripFences(responseStr(run.result[1]))) IN
          \/ match = <<>>
          \/ JSON_parse_match(match[1]) = <<>>
          \/ enrich_summary(JSON_parse_match(match[1])[1]) = ""

\* C20: an enrichment run that has failed has ended for good, and the task
\* is stored as it was before the run; the step at which a run fails
\* changes neither the store nor the cache; no step of a run that has not
\* yet written to the store touches the cache, only the store write touches
\* the store, and no step of a run changes the state or the response of any
\* request.
C20_FailedEnrichmentChangesNothing ==
    /\ [](\A run \in waitUntil :
            (run.pc = "ended" /\ EnrichmentFailed(run)) =>
                /\ run.event # "ai_enriched"
                /\ tasks[run.taskId] = TaskRow(2, 1, "Write report", "todo"))
    /\ [][\A run \in waitUntil :
            /\ run.pc = "ended" => run \in waitUntil'
            /\ run \notin waitUntil' =>
                  /\ pc' = pc /\ outcome' = outcome /\ local' = local
                  /\ run.pc # "updateAiFields" => tasks' = tasks
                  /\ run.pc # "cache.delete" => kv' = kv
                  /\ \A next \in waitUntil' \ waitUntil :
                        (next.pc = "ended" /\ EnrichmentFailed(next)) =>
                            /\ tasks' = tasks /\ kv' = kv
                            /\ run.pc \in {"enrichWithAI", "AI.run", "updateAiFields"}]_vars

\* the store write of a run threw while the item cache held the task: the
\* run has ended, the row and the cache entry are as they were
C20_Witness ==
    \E run \in waitUntil :
        /\ run.pc = "ended"
        /\ run.threw = "updateAiFields"
        /\ run.event = "ai_enrich_error"
        /\ tasks[2].ai_summary = NULL
        /\ cacheKey_item(1, 2) \in DOMAIN kv
        /\ \E s \in Slots : pc[s] = "done" /\ outcome[s].response.status = 200

\* C21: when a POST /tasks has gone through createTask to the point where
\* the enrichment is started (task stored and read back, caches
\* invalidated) and has ended, an enrichment run for the task it stored is
\* registered with waitUntil.
C21_EnrichmentHandedToWaitUntil ==
    \A s \in Slots :
        (/\ pc[s] = "done"
         /\ route(request[s]) = "createTask"
         /\ local[s].ret = "create"
         /\ local[s].result # <<>>
         /\ local[s].pending = {}) =>
            \E run \in waitUntil : run.taskId = local[s].result[1].id
\* C22: every response with a 5xx status has code INTERNAL_ERROR and the
\* generic message "Internal server error", whatever was thrown.
C22_GenericInternalError ==
    \A s \in Slots :
        (pc[s] = "done" /\ outcome[s].tag = "return" /\ outcome[s].response.status >= 500) =>
            /\ outcome[s].response.code = "INTERNAL_ERROR"
            /\ outcome[s].response.message = "Internal server error"
            /\ outcome[s].response.data = NoData
\* a Bearer token that is well-formed and signed with the secret
SignedToken(req) ==
    /\ req.authorization # <<>>
    /\ req.authorization[1].scheme = "Bearer"
    /\ req.authorization[1].token # <<>>
    /\ req.authorization[1].token[1].format = "jws"
    /\ req.authorization[1].token[1].key = JWT_SECRET

\* a request with a Bearer token that fails verification: not a JWS, wrong
\* signature, expired, or a payload without the typed fields
TokenFails(req) ==
    /\ req.authorization # <<>>
    /\ req.authorization[1].scheme = "Bearer"
    /\ req.authorization[1].token # <<>>
    /\ requireAuth(req).auth = <<>>

\* C23: the 401 for a token that fails verification says "Token has expired"
\* when the token is well-formed, correctly signed and past its expiry, and
\* "Invalid token" in every other case.
C23_ExpiredOrInvalid ==
    \A s \in Slots :
        (/\ pc[s] = "done"
         /\ requiresAuth(request[s])
         /\ TokenFails(request[s])) =>
            /\ outcome[s].response.status = 401
            /\ outcome[s].response.message =
                  IF SignedToken(request[s]) /\ request[s].authorization[1].token[1].exp <= now
                  THEN "Token has expired" ELSE "Invalid token"

(***************************************************************************)
(* SpecInvalid: the five body-reading endpoints with bodies that do not    *)
(* parse or do not validate, next to requests that are served, one request *)
(* at a time                                                               *)
(***************************************************************************)
InvalidRequests == 2

\* bodies that no validator of the five endpoints accepts
UnparsedBodies == {NoBody, JsonScalar}

InvalidRegisterBodies ==
    {JsonBody([name |-> Str("Carol"), password |-> Str("password123")]),
     RegisterBody("not-an-email", "Carol", "password123"),
     RegisterBody("c@x.com", "   ", "password123"),
     RegisterBody("c@x.com", "name101", "password123"),
     RegisterBody("c@x.com", "Carol", "short"),
     RegisterBody("c@x.com", "Carol", "pass129"),
     JsonBody([email |-> Str("c@x.com"), name |-> Str("Carol"), password |-> Num(1)])}

InvalidLoginBodies ==
    {JsonBody([password |-> Str("password123")]),
     JsonBody([email |-> Str("a@x.com")]),
     LoginBody("   ", "password123")}

InvalidCreateTaskBodies ==
    {JsonBody([description |-> Str("Quarterly numbers")]),
     JsonBody([title |-> Str("   ")]),
     JsonBody([title |-> Str("title256")]),
     JsonBody([title |-> Str("Write report"), description |-> Str("desc5001")]),
     JsonBody([title |-> Str("Write report"), status |-> Str("finished")]),
     JsonBody([title |-> Str("Write report"), priority |-> Num(1)]),
     JsonBody([title |-> Str("Write report"), due_date |-> Str("tomorrow")]),
     JsonBody([title |-> Str("Write report"), tag_ids |-> Arr(<<Str("1")>>)])}

InvalidUpdateTaskBodies ==
    {JsonBody([id |-> Num(7)]),
     JsonBody([title |-> Str("   ")]),
     JsonBody([title |-> Num(1)]),
     JsonBody([status |-> Str("finished")]),
     JsonBody([priority |-> Str("urgent")]),
     JsonBody([due_date |-> Str("2026-13-45")]),
     JsonBody([tag_ids |-> Str("1")])}

InvalidCreateTagBodies ==
    {JsonBody([color |-> Str("#6366f1")]),
     JsonBody([name |-> Str("tag51")]),
     JsonBody([name |-> Str("Work"), color |-> Str("red")]),
     JsonBody([name |-> Str("Work"), color |-> Num(1)])}

\* the bodies of the model that an endpoint must answer with a 400
RejectedBodies(r) ==
    UnparsedBodies \cup
    CASE r = "register"   -> InvalidRegisterBodies
      [] r = "login"      -> InvalidLoginBodies
      [] r = "createTask" -> InvalidCreateTaskBodies
      [] r = "updateTask" -> InvalidUpdateTaskBodies
      [] r = "createTag"  -> InvalidCreateTagBodies
      [] OTHER            -> {}

InvalidRequestSet ==
    {Request("POST", <<"auth", "register">>, <<>>, body) :
        body \in RejectedBodies("register")}
    \cup {Request("POST", <<"auth", "login">>, <<>>, body) :
        body \in RejectedBodies("login")}
    \cup {Request("POST", <<"tasks">>, Bearer(AliceToken), body) :
        body \in RejectedBodies("createTask")}
    \cup {Request("PATCH", <<"tasks", id>>, Bearer(AliceToken), body) :
        id \in {"2", "999"}, body \in RejectedBodies("updateTask")}
    \cup {Request("POST", <<"tags">>, Bearer(AliceToken), body) :
        body \in RejectedBodies("createTag")}

ServedRequestSet ==
    {Request("POST", <<"auth", "register">>, <<>>, RegisterBody("c@x.com", "Carol", "password123")),
     Request("POST", <<"auth", "login">>, <<>>, LoginBody("a@x.com", "password123"))}
    \cup ProtectedRequests(Bearer(AliceToken))

NextInvalid ==
    \/ \E req \in InvalidRequestSet \cup ServedRequestSet : fetch(1, req, InvalidRequests)
    \/ PipelineSteps(1)
    \/ AuthSteps(1)
    \/ TaskSteps(1)
    \/ TagSteps(1)

SpecInvalid == InitTwoAccounts /\ [][NextInvalid]_vars

\* C24: a request to register, login, create task, update task or create
\* tag whose body does not parse as JSON or does not pass the endpoint's
\* validation is ended by the router with a 400 BAD_REQUEST (the message
\* for an unparsed body being "Request body must be valid JSON"), no service
\* or repository step runs for it, and no step of it changes a table or a
\* task cache entry.
C24_InvalidBodyRejected ==
    [][\A s \in Slots :
          LET req == request'[s]
              r   == route(req)
              taskCache(store) == [k \in {j \in DOMAIN store : j[1] # "rl"} |-> store[k]]
          IN  (/\ pc'[s] # pc[s]
               /\ r \in BodyRoutes
               /\ req.body \in RejectedBodies(r)
               /\ requiresAuth(req) => requireAuth(req).auth # <<>>) =>
                  /\ <<users, tasks, tags, task_tags, sqlite_sequence>>'
                        = <<users, tasks, tags, task_tags, sqlite_sequence>>
                  /\ taskCache(kv') = taskCache(kv)
                  /\ waitUntil' = waitUntil
                  /\ pc[s] \in {"idle", "done", "checkRateLimit", "checkRateLimit_put", "router"}
                  /\ pc[s] = "router" =>
                        /\ pc'[s] = "done"
                        /\ outcome'[s].tag = "return"
                        /\ outcome'[s].response.status = 400
                        /\ outcome'[s].response.code = "BAD_REQUEST"
                        /\ ~req.body.json =>
                              outcome'[s].response.message = "Request body must be valid JSON"
    ]_vars

\* a PATCH of an existing task with a status outside the enumeration was
\* answered 400 and the task is as it was
C24_Witness ==
    /\ pc[1] = "done"
    /\ route(request[1]) = "updateTask"
    /\ request[1].body = JsonBody([status |-> Str("finished")])
    /\ seg2(request[1]) = "2"
    /\ outcome[1].response.status = 400
    /\ outcome[1].response.message = "status must be one of: todo, in_progress, done, cancelled"
    /\ tasks[2].status = "todo"

\* C25: every response to a request whose method is not OPTIONS carries the
\* four CORS headers that the preflight response carries.
C25_CorsOnEveryResponse ==
    \A s \in Slots :
        (pc[s] = "done" /\ outcome[s].tag = "return" /\ request[s].method # "OPTIONS") =>
            preflight.headers \subseteq outcome[s].response.headers

(***************************************************************************)
(* SpecClients: two connecting addresses, one of them at or next to the    *)
(* limit, send requests with and without an X-Forwarded-For header, one    *)
(* request at a time                                                       *)
(***************************************************************************)
ClientRequests == 3

OtherClient == "198.51.100.9"

\* X-Forwarded-For values a client may send: none, a third address, or the
\* connecting address of the other client
ForwardedFor == {<<>>, <<"192.0.2.1">>, <<PreflightClient>>, <<OtherClient>>}

ClientRequestSet ==
    {[Req("GET", <<"health">>, NoQuery, cfip, <<>>, NoBody) EXCEPT !.xff = xff] :
        cfip \in {<<PreflightClient>>, <<OtherClient>>, <<>>}, xff \in ForwardedFor}

NextClients ==
    \/ \E req \in ClientRequestSet : fetch(1, req, ClientRequests)
    \/ PipelineSteps(1)

SpecClients == InitNearLimit /\ [][NextClients]_vars

\* C26: the rate limiter reads and writes only the counter named by the
\* request's CF-Connecting-IP value ("unknown" when the header is absent),
\* whatever X-Forwarded-For header the client sent: the request is rejected
\* exactly when that counter has reached the limit, an admitted request
\* raises that counter by one, and no other counter changes.
C26_CounterKeyedByConnectingIp ==
    [][\A s \in Slots :
          LET req == request[s]
              key == <<"rl", IF req.cfip = <<>> THEN "unknown" ELSE req.cfip[1]>>
              count(store) == IF key \in DOMAIN store THEN store[key].value ELSE 0
          IN  /\ (pc[s] = "checkRateLimit" /\ pc'[s] # pc[s]) =>
                    /\ kv' = kv
                    /\ pc'[s] = "done" <=> count(kv) >= RATE_LIMIT_MAX
                    /\ pc'[s] = "done" => outcome'[s].response.status = 429
              /\ (pc[s] = "checkRateLimit_put" /\ pc'[s] # pc[s]) =>
                    /\ count(kv') = count(kv) + 1
                    /\ DOMAIN kv' = DOMAIN kv \cup {key}
                    /\ \A k \in DOMAIN kv \ {key} : kv'[k] = kv[k]
    ]_vars

\* a request from the second address that named the first one, which is at
\* its limit, in X-Forwarded-For was admitted and counted for the second
C26_Witness ==
    /\ pc[1] = "done"
    /\ request[1].cfip = <<OtherClient>>
    /\ request[1].xff = <<PreflightClient>>
    /\ outcome[1].response.status = 200
    /\ kv[<<"rl", PreflightClient>>].value = RATE_LIMIT_MAX
    /\ kv[<<"rl", OtherClient>>].value = 1

(***************************************************************************)
(* SpecStages: a client whose counter stands at 59 or 60 sends attacks,    *)
(* preflights and requests to the protected routes with and without a      *)
(* token, one request at a time                                            *)
(***************************************************************************)
StageRequests == 2

InitStages ==
    /\ now = 0
    /\ users = (1 :> Alice) @@ (2 :> Bob)
    /\ tasks = (1 :> TaskRow(1, 2, "Buy milk", "todo")) @@ (2 :> TaskRow(2, 1, "Write report", "todo"))
    /\ tags = (1 :> TagRow(1, 1, "work"))
    /\ task_tags = {<<2, 1>>}
    /\ sqlite_sequence = [users |-> 2, tasks |-> 2, tags |-> 1]
    /\ last_insert_rowid = 0
    /\ issued = {issueToken(Alice), issueToken(Bob)}
    /\ \E count \in {RATE_LIMIT_MAX - 1, RATE_LIMIT_MAX} :
          kv = (<<"rl", PreflightClient>> :>
                    [value |-> count, expiration |-> RATE_LIMIT_WINDOW])
    /\ pc = [s \in Slots |-> "idle"]
    /\ request = [s \in Slots |-> NoRequest]
    /\ local = [s \in Slots |-> InitLocal]
    /\ outcome = [s \in Slots |-> Pending]
    /\ waitUntil = {}
    /\ served = 0

StageRequestSet ==
    {[req EXCEPT !.cfip = <<PreflightClient>>] :
        req \in ProtectedRequests(Bearer(AliceToken)) \cup ProtectedRequests(<<>>)
                \cup {Request("OPTIONS", <<"tasks">>, <<>>, NoBody),
                      Req("OPTIONS", <<"tasks">>, [search |-> "xp_cmdshell"], <<>>, <<>>, NoBody),
                      Req("GET", <<"tasks">>, [search |-> "xp_cmdshell"], <<>>,
                          Bearer(AliceToken), NoBody),
                      Request("GET", <<"health">>, <<>>, NoBody)}}

NextStages ==
    \/ \E req \in StageRequestSet : fetch(1, req, StageRequests)
    \/ PipelineSteps(1)
    \/ getProfile(1)
    \/ TaskSteps(1)
    \/ TagSteps(1)

SpecStages == InitStages /\ [][NextStages]_vars

\* C27: an invocation passes the threat filter, the preflight check, the
\* rate limiter and the logger-wrapped router in this order, and the router
\* authenticates before it calls a controller.  A request the threat filter
\* blocks is answered 403 even when it is a preflight; a preflight is answered
\* 204; a request over the limit is answered 429; none of the three reaches
\* a later stage (no counter or table is written by a blocked request or a
\* preflight, no table by a rate-limited one, and none carries the logger's
\* X-Request-ID), and each carries the security headers, as does every
\* response that carries X-Request-ID.
C27_StagesInOrder ==
    [][\A s \in Slots :
          LET req     == request'[s]
              stage   == pc[s]
              next    == pc'[s]
              headers == outcome'[s].response.headers
              early   == /\ outcome'[s].tag = "return"
                         /\ SECURITY_HEADERS \subseteq headers
                         /\ "X-Request-ID" \notin headers
                         /\ <<users, tasks, tags, task_tags>>' = <<users, tasks, tags, task_tags>>
          IN  (next # stage \/ request'[s] # request[s] \/ outcome'[s] # outcome[s]) =>
                 /\ stage \in {"idle", "done"} =>
                       /\ kv' = kv
                       /\ IF detectMaliciousInput(req) # <<>>
                          THEN next = "done" /\ early /\ outcome'[s].response.status = 403
                          ELSE IF req.method = "OPTIONS"
                          THEN next = "done" /\ early /\ outcome'[s].response.status = 204
                          ELSE next = "checkRateLimit"
                 /\ stage = "checkRateLimit" =>
                       /\ next \in {"done", "checkRateLimit_put"}
                       /\ next = "done" => early /\ outcome'[s].response.status = 429
                 /\ stage = "checkRateLimit_put" => next = "router"
                 /\ stage = "router" =>
                       IF requiresAuth(req) /\ requireAuth(req).auth = <<>>
                       THEN next = "done" /\ outcome'[s].response.status = 401
                       ELSE next # "done" =>
                               local'[s].auth = IF requiresAuth(req)
                                                THEN requireAuth(req).auth ELSE <<>>
                 /\ next = "checkRateLimit" => stage \in {"idle", "done"}
                 /\ next = "checkRateLimit_put" => stage = "checkRateLimit"
                 /\ next = "router" => stage = "checkRateLimit_put"
                 /\ next \notin {"idle", "done", "checkRateLimit", "checkRateLimit_put", "router"} =>
                       stage \notin {"idle", "done", "checkRateLimit", "checkRateLimit_put"}
                 /\ (/\ next = "done" /\ stage \notin {"idle", "done", "checkRateLimit"}
                     /\ outcome'[s].tag = "return" /\ "X-Request-ID" \in headers) =>
                           SECURITY_HEADERS \subseteq headers
    ]_vars

\* a preflight that carries an attack in its query string was answered 403,
\* not 204, after a first request had been admitted
C27_Witness ==
    /\ pc[1] = "done"
    /\ served = 2
    /\ request[1].method = "OPTIONS"
    /\ request[1].query # NoQuery
    /\ outcome[1].response.status = 403
    /\ SECURITY_HEADERS \subseteq outcome[1].response.headers
    /\ kv[<<"rl", PreflightClient>>].value = RATE_LIMIT_MAX

\* C28: with requests in flight side by side, every 201 answer to a create
\* request describes the row that request inserted: a registration's user
\* has the email and name the request sent, a tag has the name the request
\* sent and the requester as its owner, a task has the title the request
\* sent and the requester as its owner.
C28_CreatedRowIsOwn ==
    \A s \in Slots :
        (pc[s] = "done" /\ outcome[s].tag = "return" /\ outcome[s].response.status = 201) =>
            LET r     == route(request[s])
                data  == outcome[s].response.data
                input == validation(r, request[s]).value[1]
                user  == requireAuth(request[s]).auth[1].userId
            IN  /\ r = "register" =>
                      /\ data.user[1].email = input.email
                      /\ data.user[1].name = input.name
                /\ r = "createTag" =>
                      /\ data.tag[1].name = input.name
                      /\ data.tag[1].user_id = user
                /\ r = "createTask" =>
                      /\ data.task[1].title = input.title
                      /\ data.task[1].user_id = user

(***************************************************************************)
(* SpecLinks: Bob names Alice's tag in tag_ids when he creates and updates *)
(* tasks, and reads his tasks, one request at a time                       *)
(***************************************************************************)
LinkRequests == 2

LinkRequestSet ==
    {Request("POST", <<"tasks">>, Bearer(BobToken),
             JsonBody([title |-> Str("Buy milk"), tag_ids |-> Arr(<<Num(1)>>)])),
     Request("PATCH", <<"tasks", "1">>, Bearer(BobToken),
             JsonBody([tag_ids |-> Arr(<<Num(1)>>)])),
     Request("PATCH", <<"tasks", "1">>, Bearer(BobToken),
             JsonBody([tag_ids |-> Arr(<<>>)])),
     Request("GET", <<"tasks", "1">>, Bearer(BobToken), NoBody),
     Request("GET", <<"tasks">>, Bearer(BobToken), NoBody),
     Request("DELETE", <<"tasks", "1">>, Bearer(BobToken), NoBody)}

NextLinks ==
    \/ \E req \in LinkRequestSet : fetch(1, req, LinkRequests)
    \/ PipelineSteps(1)
    \/ TaskSteps(1)

SpecLinks == InitTwoAccounts /\ [][NextLinks]_vars

\* C29: every task-tag link joins a task and a tag of the same owner, and
\* every tag in a task or task list delivered to a user is a tag that user
\* owns.
C29_TagsStayWithTheirOwner ==
    /\ \A link \in task_tags :
          (link[1] \in DOMAIN tasks /\ link[2] \in DOMAIN tags) =>
              tasks[link[1]].user_id = tags[link[2]].user_id
    /\ \A s \in Slots :
          (/\ pc[s] = "done" /\ outcome[s].tag = "return"
           /\ outcome[s].response.status \in {200, 201}
           /\ requiresAuth(request[s])) =>
              LET data  == outcome[s].response.data
                  user  == requireAuth(request[s]).auth[1].userId
                  shown == (IF data.task = <<>> THEN {} ELSE data.task[1].tags)
                           \cup UNION {data.tasks[i].tags : i \in 1..Len(data.tasks)}
              IN  \A tg \in shown :
                      \A id \in DOMAIN tags :
                          (tags[id].id = tg.id \/ tags[id].name = tg.name) =>
                              tags[id].user_id = user

\* C30: a create, update or delete of a task starts its cache deletes only
\* when its store write is done (the created or updated row is in the table,
\* the deleted row is gone), the deletes are the user's list key and, for
\* update and delete, the task's item key, no table changes while they run,
\* and the request is answered (with a success status for update and
\* delete) only by the step that completes the last of them.
C30_InvalidateAfterWriteBeforeReturn ==
    [][\A s \in Slots :
          LET r    == route(request[s])
              user == requireAuth(request[s]).auth[1].userId
              id   == local[s].id
              keys == IF r = "createTask" THEN {<<"tasks", user>>}
                      ELSE {<<"tasks", user>>, <<"task", user, id>>}
          IN  r \in {"createTask", "updateTask", "deleteTask"} =>
                /\ (pc[s] # "invalidateUserCache" /\ pc'[s] = "invalidateUserCache") =>
                      /\ local'[s].pending = keys
                      /\ r = "deleteTask" => id \notin DOMAIN tasks'
                      /\ r # "deleteTask" =>
                            /\ tasks' = tasks
                            /\ local'[s].result # <<>>
                            /\ local'[s].result[1].id \in DOMAIN tasks
                            /\ local'[s].result[1].title = tasks[local'[s].result[1].id].title
                            /\ local'[s].result[1].status = tasks[local'[s].result[1].id].status
                /\ (pc[s] = "invalidateUserCache" /\ pc'[s] # "idle" /\ request'[s] = request[s]) =>
                      /\ <<users, tasks, tags, task_tags>>' = <<users, tasks, tags, task_tags>>
                      /\ \E key \in local[s].pending :
                            /\ key \notin DOMAIN kv'
                            /\ local'[s].pending = local[s].pending \ {key}
                      /\ pc'[s] = "done" <=> local'[s].pending = {}
                      /\ (pc'[s] = "done" /\ r # "createTask") =>
                            outcome'[s].response.status = 200
                /\ (/\ pc[s] \notin {"idle", "done"} /\ pc'[s] = "done"
                    /\ outcome'[s].tag = "return"
                    /\ outcome'[s].response.status \in {200, 201}) =>
                      /\ pc[s] = "invalidateUserCache"
                      /\ \A key \in keys : key \notin DOMAIN kv'
    ]_vars

\* Bob read task 1, which cached it, then deleted it: the row and both cache
\* entries are gone when the 200 is returned
C30_Witness ==
    /\ pc[1] = "done"
    /\ served = 2
    /\ route(request[1]) = "deleteTask"
    /\ outcome[1].response.status = 200
    /\ 1 \notin DOMAIN tasks
    /\ <<"task", 2, 1>> \notin DOMAIN kv
    /\ <<"tasks", 2>> \notin DOMAIN kv

\* C31: a list cache entry holds the first page of the unfiltered list at
\* the default limit of 20, and every 200 of GET /tasks carries the page the
\* store gives for the query that was asked (the tables do not change in
\* this specification): the rows of the asked page at the asked limit, with
\* that page and limit in meta.
C31_ListCacheOnlyForDefaultQuery ==
    /\ \A key \in DOMAIN kv :
          key[1] = "tasks" =>
              /\ JSON_parse(kv[key].value).page = 1
              /\ JSON_parse(kv[key].value).limit = 20
    /\ \A s \in Slots :
          (/\ pc[s] = "done"
           /\ route(request[s]) = "getAllTasks"
           /\ outcome[s].tag = "return"
           /\ outcome[s].response.status = 200) =>
              LET params == validateTaskQuery(request[s]).value[1]
                  user   == requireAuth(request[s]).auth[1].userId
                  rows   == findAll_results(user, params)
                  data   == outcome[s].response.data
              IN  /\ data.tasks = [i \in 1..Len(rows) |-> TaskResponse(rows[i], attachTags(rows[i].id))]
                  /\ data.meta[1].page = findAll_page(params)
                  /\ data.meta[1].limit = findAll_limit(params)
                  /\ data.meta[1].total = findAll_total(user, params)

(***************************************************************************)
(* SpecEnrichList: the owner reads the default list, one request at a      *)
(* time, beside the enrichment run of one of its tasks                     *)
(***************************************************************************)
EnrichListRequests == 2

EnrichListRequestSet ==
    {Request("GET", <<"tasks">>, Bearer(AliceToken), NoBody)}

NextEnrichList ==
    \/ EnrichmentSteps
    \/ \E req \in EnrichListRequestSet : fetch(1, req, EnrichListRequests)
    \/ PipelineSteps(1)
    \/ getAllTasks(1)
    \/ findAll_count(1)
    \/ findAll_select(1)
    \/ findAll_tags(1)
    \/ getAllTasks_put(1)

SpecEnrichList == InitEnrich /\ [][NextEnrichList]_vars

C33_PersistedAiFieldsAreValid ==
    /\ \A id \in DOMAIN tasks :
          tasks[id].ai_summary # NULL =>
              /\ tasks[id].ai_sentiment \in {"positive", "neutral", "negative"}
              /\ length(tasks[id].ai_summary) \in 1..200
    /\ \A run \in waitUntil :
          (run.pc \in {"updateAiFields", "cache.delete", "ended"} /\ run.summary # "") =>
              /\ run.sentiment \in {"positive", "neutral", "negative"}
              /\ length(run.summary) \in 1..200
              /\ run.result[1].text \in {OddSentiment, NoSentiment, NumberSentiment} =>
                    run.sentiment = "neutral"
              /\ run.result[1].text \in {GoodJson, FencedJson, WrappedJson} =>
                    run.sentiment = "negative"

\* a summary of 201 characters was cut to 200 and stored
C33_Witness ==
    \E run \in waitUntil :
        /\ run.pc = "ended"
        /\ run.event = "ai_enriched"
        /\ run.result[1].text = LongSummary
        /\ tasks[run.taskId].ai_summary = "summary200"
        /\ length(tasks[run.taskId].ai_summary) = 200
        /\ tasks[run.taskId].ai_sentiment = "neutral"

PartialRequests == 2

PartialRequestSet ==
    {Request("POST", <<"tasks">>, Bearer(AliceToken),
             JsonBody([title |-> Str("Write report"), tag_ids |-> Arr(<<Num(9)>>)])),
     Request("POST", <<"tasks">>, Bearer(AliceToken),
             JsonBody([title |-> Str("   ")])),
     Request("PATCH", <<"tasks", "2">>, Bearer(AliceToken),
             JsonBody([status |-> Str("done"), tag_ids |-> Arr(<<Num(9)>>)])),
     Request("PATCH", <<"tasks", "2">>, Bearer(AliceToken),
             JsonBody([status |-> Str("done"), tag_ids |-> Arr(<<Num(1)>>)])),
     Request("PATCH", <<"tasks", "1">>, Bearer(AliceToken),
             JsonBody([status |-> Str("done")])),
     Request("PATCH", <<"tasks", "5">>, Bearer(AliceToken),
             JsonBody([status |-> Str("done")]))}

NextPartial ==
    \E s \in Slots :
        \/ /\ \A t \in Slots : pc[t] \in {"idle", "done"}
           /\ \E req \in PartialRequestSet : fetch(s, req, PartialRequests)
        \/ PipelineSteps(s)
        \/ task_create(s)
        \/ task_create_rowid(s)
        \/ attachTagsToTask(s)
        \/ findById(s)
        \/ toTaskResponse(s)
        \/ task_update(s)
        \/ task_update_deleteTags(s)
        \/ invalidateUserCache(s)

SpecPartial == InitTwoAccounts /\ [][NextPartial]_vars

\* C35: as long as every request received so far has been answered with a
\* 4xx or 5xx status, the users, tasks, tags and task-tag links are those
\* of the initial state.
C35_ErrorLeavesStoreUnchanged ==
    (/\ served > 0
     /\ Cardinality({s \in Slots : pc[s] = "done"}) = served
     /\ \A s \in Slots :
           /\ pc[s] \in {"idle", "done"}
           /\ pc[s] = "done" =>
                 outcome[s].tag = "return" /\ outcome[s].response.status >= 400) =>
        /\ users = (1 :> Alice) @@ (2 :> Bob)
        /\ tasks = (1 :> TaskRow(1, 2, "Buy milk", "todo")) @@ (2 :> TaskRow(2, 1, "Write report", "todo"))
        /\ tags = (1 :> TagRow(1, 1, "work"))
        /\ task_tags = {<<2, 1>>}

(***************************************************************************)
(* SpecStatus: the owner of task 2, stored with status todo, sends PATCH   *)
(* requests that set its status, side by side                              *)
(***************************************************************************)
StatusRequests == 2

StatusRequestSet ==
    {Request("PATCH", <<"tasks", "2">>, Bearer(AliceToken), JsonBody([status |-> Str(status)])) :
        status \in {"done", "in_progress", "cancelled"}}

NextStatus ==
    \E s \in Slots :
        \/ \E req \in StatusRequestSet : fetch(s, req, StatusRequests)
        \/ PipelineSteps(s)
        \/ findById(s)
        \/ toTaskResponse(s)
        \/ task_update(s)
        \/ invalidateUserCache(s)

SpecStatus == InitTwoAccounts /\ [][NextStatus]_vars

\* C36: whenever no PATCH is in flight, the stored task 2 has a completed_at
\* exactly when its status is done.
C36_CompletedAtIffDoneAfterPatches ==
    (\A s \in Slots : pc[s] \in {"idle", "done"}) =>
        ((tasks[2].completed_at # <<>>) <=> (tasks[2].status = "done"))

(***************************************************************************)
(* SpecEnrichWrite: the owner renames, completes or deletes task 2, one    *)
(* request at a time, while the enrichment run of task 2 is under way      *)
(***************************************************************************)
EnrichWriteRequests == 2

EnrichWriteRequestSet ==
    {Request("PATCH", <<"tasks", "2">>, Bearer(AliceToken), JsonBody([title |-> Str("Updated title")])),
     Request("PATCH", <<"tasks", "2">>, Bearer(AliceToken), JsonBody([status |-> Str("done")])),
     Request("DELETE", <<"tasks", "2">>, Bearer(AliceToken), NoBody)}

NextEnrichWrite ==
    \/ EnrichmentSteps
    \/ \E req \in EnrichWriteRequestSet : fetch(1, req, EnrichWriteRequests)
    \/ PipelineSteps(1)
    \/ findById(1)
    \/ toTaskResponse(1)
    \/ task_update(1)
    \/ task_remove(1)
    \/ invalidateUserCache(1)

SpecEnrichWrite == InitEnrich /\ [][NextEnrichWrite]_vars

\* C37: a step of an enrichment run creates and deletes no task, leaves
\* every task other than its own as it is, changes at most ai_summary,
\* ai_sentiment and updated_at of its own task, and changes no user, tag or
\* task-tag link.
C37_EnrichmentWritesOnlyAiFields ==
    [][\A run \in waitUntil :
          run \notin waitUntil' =>
              /\ DOMAIN tasks' = DOMAIN tasks
              /\ \A id \in DOMAIN tasks :
                    /\ id # run.taskId => tasks'[id] = tasks[id]
                    /\ \A f \in DOMAIN tasks[id] \ {"ai_summary", "ai_sentiment", "updated_at"} :
                          tasks'[id][f] = tasks[id][f]
              /\ <<users, tags, task_tags>>' = <<users, tags, task_tags>>
    ]_vars

\* the run stored its summary after the owner had renamed the task: the new
\* title is still there
C37_Witness ==
    \E run \in waitUntil :
        /\ run.pc = "ended"
        /\ run.event = "ai_enriched"
        /\ run.title = "Write report"
        /\ 2 \in DOMAIN tasks
        /\ tasks[2].title = "Updated title"
        /\ tasks[2].ai_summary = run.summary
        /\ tasks[2].updated_at = now

(***************************************************************************)
(* SpecLimited: a client whose counter reached the limit at time 0 keeps   *)
(* sending requests, one at a time, while the clock advances               *)
(***************************************************************************)
LimitedRequests == 3
LimitedMaxNow == 80

InitLimited ==
    /\ InitNearLimit
    /\ kv[<<"rl", PreflightClient>>].value = RATE_LIMIT_MAX

NextLimited ==
    \/ Tick(LimitedMaxNow)
    \/ \E s \in Slots :
          \/ /\ \A t \in Slots : pc[t] \in {"idle", "done"}
             /\ fetch(s, HealthRequest(PreflightClient), LimitedRequests)
          \/ PipelineSteps(s)

SpecLimited == InitLimited /\ [][NextLimited]_vars

\* C38: the step that rejects a request with 429 leaves the counters and
\* their expiry times as they are; a request is rejected only while the
\* counter of its address is stored with the limit as its value; a counter
\* is written only by an admitted request, with an expiry 60 seconds after
\* that write; and the counter is gone, so that the next request is
\* admitted, as soon as the clock reaches that expiry.
C38_RejectionKeepsCounterAndTtl ==
    /\ [][\A s \in Slots :
            LET key == <<"rl", request[s].cfip[1]>> IN
            /\ (pc[s] = "checkRateLimit" /\ pc'[s] = "done") =>
                  /\ outcome'[s].response.status = 429
                  /\ kv' = kv
                  /\ key \in DOMAIN kv
                  /\ kv[key].value >= RATE_LIMIT_MAX
            /\ (pc[s] = "checkRateLimit" /\ pc'[s] = "checkRateLimit_put") => kv' = kv
            /\ (pc[s] = "checkRateLimit_put" /\ pc'[s] # pc[s]) =>
                  kv'[key].expiration = now + RATE_LIMIT_WINDOW
      ]_vars
    /\ [](\A key \in DOMAIN kv : kv[key].expiration > now)
    /\ [][now' # now => \A key \in DOMAIN kv :
                            /\ key \in DOMAIN kv' <=> kv[key].expiration > now'
                            /\ key \in DOMAIN kv' => kv'[key] = kv[key]]_vars

\* the client was answered 429 before the counter's expiry and, at time 60,
\* 200 by the next request, which started a new counter
C38_Witness ==
    \E s, t \in Slots :
        /\ pc[s] = "done" /\ pc[t] = "done"
        /\ outcome[s].response.status = 429
        /\ outcome[t].response.status = 200
        /\ local[s].seq < local[t].seq
        /\ now = RATE_LIMIT_WINDOW
        /\ kv[<<"rl", PreflightClient>>].value = 1
        /\ kv[<<"rl", PreflightClient>>].expiration = 2 * RATE_LIMIT_WINDOW

(***************************************************************************)
(* SpecRace: requests of two addresses, and requests without an address,   *)
(* run concurrently against counters of which one stands at 59 or 60,      *)
(* while the clock advances                                                *)
(***************************************************************************)
RaceRequests == 3
RaceMaxNow == 60

RaceRequestSet ==
    {HealthRequest(PreflightClient), HealthRequest(OtherClient),
     Req("GET", <<"health">>, NoQuery, <<>>, <<>>, NoBody)}

NextRace ==
    \/ Tick(RaceMaxNow)
    \/ \E s \in Slots :
          \/ \E req \in RaceRequestSet : fetch(s, req, RaceRequests)
          \/ PipelineSteps(s)

SpecRace == InitNearLimit /\ [][NextRace]_vars

\* C39: whatever the interleaving of the requests of any addresses, every
\* stored rate-limit counter is an integer between 1 and 60, and every step
\* that writes a counter writes such a value.
C39_CounterBetweenOneAndLimit ==
    /\ [](\A key \in DOMAIN kv :
             key[1] = "rl" => kv[key].value \in 1..RATE_LIMIT_MAX)
    /\ [][\A key \in DOMAIN kv' :
             (key[1] = "rl" /\ (key \notin DOMAIN kv \/ kv'[key] # kv[key])) =>
                 kv'[key].value \in 1..RATE_LIMIT_MAX]_vars

\* two requests of one address both read the counter at 59, both were
\* admitted and both wrote 60
C39_Witness ==
    /\ \A s \in Slots :
          /\ pc[s] = "done"
          /\ request[s] = HealthRequest(PreflightClient)
          /\ local[s].count = RATE_LIMIT_MAX - 1
          /\ outcome[s].response.status = 200
    /\ kv[<<"rl", PreflightClient>>].value = RATE_LIMIT_MAX
    /\ served = 2

====
